---- MODULE Spec2Model ----
(***************************************************************************)
(* A model of sirocco's configuration resolution: the deployer factory      *)
(* (deploy type / environment resolution, validEnvs validation, cascading   *)
(* of configuration layers) and the resolution of resolvable values.        *)
(*                                                                          *)
(* JavaScript values are tagged records.  A JavaScript string is a sequence *)
(* of one-character strings, so that split, join, replace and toLowerCase   *)
(* are computed rather than assumed.                                        *)
(***************************************************************************)
EXTENDS Integers, Sequences, FiniteSets, TLC

\* ------------------------------------------------------------------ bounds

\* Longest environment name, environment variable value and branch name drawn.
MaxLen == 2

\* Longest validEnvs list drawn for the validator specification.
MaxListLen == 2

\* ------------------------------------------------------- JavaScript values

Undef == [t |-> "undefined"]
Null == [t |-> "null"]
Str(s) == [t |-> "string", s |-> s]
Arr(items) == [t |-> "array", items |-> items]
Obj(o) == [t |-> "object", o |-> o]
\* A regular expression: kind "prefix" is /^pat/, kind "contains" is /pat/.
Re(kind, pat) == [t |-> "regexp", kind |-> kind, pat |-> pat]
\* A function value, identified by the behaviour the model gives it.
Fn(id) == [t |-> "function", id |-> id]
JsTrue == [t |-> "boolean", b |-> TRUE]
JsFalse == [t |-> "boolean", b |-> FALSE]

EmptyObj == Obj([k \in {} |-> Undef])

IsStr(v) == v.t = "string"
IsObj(v) == v.t = "object"
IsArr(v) == v.t = "array"

\* JavaScript truthiness, as used by `if (x)`, `x && y` and `!x`.
Truthy(v) ==
    CASE v.t = "undefined" -> FALSE
      [] v.t = "null" -> FALSE
      [] v.t = "string" -> v.s # <<>>
      [] v.t = "boolean" -> v.b
      [] OTHER -> TRUE

\* obj[key] for a JavaScript object: undefined when the key is not its own.
Get(obj, key) == IF key \in DOMAIN obj.o THEN obj.o[key] ELSE Undef

\* obj.hasOwnProperty(key)
HasOwn(obj, key) == key \in DOMAIN obj.o

\* --------------------------------------------------------- string functions

\* The index of the first occurrence of sep in s at or after position i, 0 if none.
RECURSIVE IndexOfFrom(_, _, _)
IndexOfFrom(s, sep, i) ==
    IF i + Len(sep) - 1 > Len(s) THEN 0
    ELSE IF SubSeq(s, i, i + Len(sep) - 1) = sep THEN i
    ELSE IndexOfFrom(s, sep, i + 1)

\* String.prototype.split(sep) for a non-empty separator: the list of the
\* segments of s between the occurrences of sep.
RECURSIVE SplitStr(_, _)
SplitStr(s, sep) ==
    LET i == IndexOfFrom(s, sep, 1)
    IN IF i = 0 THEN <<s>>
       ELSE <<SubSeq(s, 1, i - 1)>> \o SplitStr(SubSeq(s, i + Len(sep), Len(s)), sep)

\* Mutant: the string is not split at all.
SplitLimit_NoSplit(s, sep, limit) == <<s>>

\* String.prototype.split(sep, limit): at most limit segments are kept.
SplitLimit(s, sep, limit) ==
    LET parts == SplitStr(s, sep)
    IN IF Len(parts) <= limit THEN parts ELSE SubSeq(parts, 1, limit)

\* Array.prototype.join(sep) on a list of strings.
RECURSIVE JoinStr(_, _)
JoinStr(parts, sep) ==
    IF Len(parts) = 0 THEN <<>>
    ELSE IF Len(parts) = 1 THEN parts[1]
    ELSE parts[1] \o sep \o JoinStr(Tail(parts), sep)

LowerChar(c) == IF c = "B" THEN "b" ELSE c

\* String.prototype.toLowerCase()
ToLowerCase(s) == [i \in 1..Len(s) |-> LowerChar(s[i])]

\* String.prototype.replace(pat, by) with a string pattern: only the first
\* occurrence is replaced.
ReplaceFirst(s, pat, by) ==
    LET i == IndexOfFrom(s, pat, 1)
    IN IF i = 0 THEN s
       ELSE SubSeq(s, 1, i - 1) \o by \o SubSeq(s, i + Len(pat), Len(s))

StartsWith(s, p) == Len(p) <= Len(s) /\ SubSeq(s, 1, Len(p)) = p

\* String(v): the string a non-string value is coerced to (RegExp.prototype.test
\* coerces its argument).  A regular expression prints as its source between
\* slashes, an array as its elements joined by commas, a function as its
\* source text, which one symbol naming the function stands for.
RECURSIVE ToStringJs(_)
ToStringJs(v) ==
    CASE v.t = "string" -> v.s
      [] v.t = "regexp" ->
            <<"/">> \o (IF v.kind = "prefix" THEN <<"^">> ELSE <<>>) \o v.pat \o <<"/">>
      [] v.t = "array" ->
            JoinStr([i \in 1..Len(v.items) |->
                        IF v.items[i].t \in {"undefined", "null"} THEN <<>>
                        ELSE ToStringJs(v.items[i])], <<",">>)
      [] v.t = "undefined" -> <<"u", "n", "d", "e", "f", "i", "n", "e", "d">>
      [] v.t = "null" -> <<"n", "u", "l", "l">>
      [] v.t = "boolean" -> IF v.b THEN <<"t", "r", "u", "e">> ELSE <<"f", "a", "l", "s", "e">>
      [] v.t = "function" -> <<"function ", v.id>>
      [] OTHER -> <<"[", "o", "b", "j", "e", "c", "t", "]">>

\* RegExp.prototype.test(v)
ReTest(re, v) ==
    LET s == ToStringJs(v)
    IN IF re.kind = "prefix" THEN StartsWith(s, re.pat)
       ELSE re.pat = <<>> \/ IndexOfFrom(s, re.pat, 1) > 0

\* a === b
StrictEq(a, b) == a = b

\* ------------------------------------------------------ validEnvs predicates

\* The predicate functions the model knows: what each does when called with
\* an environment name.  thrown says that the call raised an exception, whose
\* message is then message.
PredIds == {"true", "false", "truthyString", "hasDash", "throwsA", "throwsB"}

CallPredicate(fn, env) ==
    CASE fn.id = "true" -> [thrown |-> FALSE, value |-> JsTrue, message |-> <<>>]
      [] fn.id = "false" -> [thrown |-> FALSE, value |-> JsFalse, message |-> <<>>]
      [] fn.id = "truthyString" -> [thrown |-> FALSE, value |-> Str(<<"a">>), message |-> <<>>]
      [] fn.id = "hasDash" ->
            [thrown |-> FALSE,
             value |-> IF IndexOfFrom(ToStringJs(env), <<"-">>, 1) > 0 THEN JsTrue ELSE JsFalse,
             message |-> <<>>]
      [] fn.id = "throwsA" -> [thrown |-> TRUE, value |-> Undef, message |-> <<"A">>]
      [] OTHER -> [thrown |-> TRUE, value |-> Undef, message |-> <<"B">>]

\* The outcome of a call: a returned value, or a thrown error of some class.
\* An error message: its fixed text and the value interpolated at its end.
Message(text, detail) == [text |-> text, detail |-> detail]
NoMessage == Message("", Undef)
\* instanceof CallerError: ConfigError extends CallerError.
InstanceOfCallerError(class) == class \in {"CallerError", "ConfigError"}


Returned(v) == [error |-> "none", value |-> v, message |-> NoMessage]
Threw(class, message) == [error |-> class, value |-> Undef, message |-> message]

\* runEnvNameValidator(envNameValidator, env).  Array.prototype.some calls the
\* elements in order and stops at the first truthy result; an exception thrown
\* by an element ends the whole call.
RECURSIVE runEnvNameValidator(_, _)
RECURSIVE someValidator(_, _, _)
someValidator(items, i, env) ==
    IF i > Len(items) THEN Returned(JsFalse)
    ELSE LET r == runEnvNameValidator(items[i], env)
         IN IF r.error # "none" THEN r
            ELSE IF Truthy(r.value) THEN Returned(JsTrue)
            ELSE someValidator(items, i + 1, env)

\* Mutant: the exception of a predicate is caught and counts as no match.
runEnvNameValidator_SwallowsThrow(envNameValidator, env) ==
    CASE envNameValidator.t = "function" ->
            LET r == CallPredicate(envNameValidator, env)
            IN IF r.thrown THEN Returned(JsFalse) ELSE Returned(r.value)
      [] envNameValidator.t = "string" ->
            Returned(IF StrictEq(env, envNameValidator) THEN JsTrue ELSE JsFalse)
      [] envNameValidator.t = "array" -> someValidator(envNameValidator.items, 1, env)
      [] envNameValidator.t = "regexp" ->
            Returned(IF ReTest(envNameValidator, env) THEN JsTrue ELSE JsFalse)
      [] OTHER -> Returned(Undef)


runEnvNameValidator(envNameValidator, env) ==
    CASE envNameValidator.t = "function" ->
            LET r == CallPredicate(envNameValidator, env)
            IN IF r.thrown
               THEN Threw("ConfigError",
                          Message("An error occurred running the deploy-type validEnvs function: ",
                                  Str(r.message)))
               ELSE Returned(r.value)
      [] envNameValidator.t = "string" ->
            Returned(IF StrictEq(env, envNameValidator) THEN JsTrue ELSE JsFalse)
      [] envNameValidator.t = "array" -> someValidator(envNameValidator.items, 1, env)
      [] envNameValidator.t = "regexp" ->
            Returned(IF ReTest(envNameValidator, env) THEN JsTrue ELSE JsFalse)
      [] OTHER -> Returned(Undef)

\* Mutant: validEnvs is never consulted.
checkForValidEnv_AlwaysValid(deployTypeConfig, env) == Returned(JsTrue)

\* checkForValidEnv(deployTypeConfig, env)
checkForValidEnv(deployTypeConfig, env) ==
    LET validEnvs == Get(deployTypeConfig, "validEnvs")
    IN IF Truthy(validEnvs) THEN runEnvNameValidator(validEnvs, env)
       ELSE Returned(JsTrue)

\* ------------------------------------------------------------ lodash.merge

MaxOf(a, b) == IF a >= b THEN a ELSE b

\* merge(object, source) of lodash.merge 4.6, which getDeployerFactory requires:
\* every key of source is merged into object.  A plain-object source value is
\* merged recursively into the object value (into a fresh object when the
\* object value is no object, or is a function); an array source value is
\* merged index by index into the object value (into a fresh array when the
\* object value is no array); an undefined source value leaves the object
\* value; any other source value (string, function, regular expression, null)
\* is assigned.
RECURSIVE baseMerge(_, _)
RECURSIVE mergedValue(_, _)
mergedValue(objValue, srcValue) ==
    CASE srcValue.t = "array" ->
            baseMerge(IF objValue.t = "array" THEN objValue ELSE Arr(<<>>), srcValue)
      [] srcValue.t = "object" ->
            IF objValue.t = "object" THEN baseMerge(objValue, srcValue)
            \* an array or regular expression keeps its identity (the named
            \* properties lodash adds to it are not represented)
            ELSE IF objValue.t \in {"array", "regexp"} THEN objValue
            ELSE baseMerge(EmptyObj, srcValue)
      [] srcValue.t = "undefined" -> objValue
      [] OTHER -> srcValue

baseMerge(object, source) ==
    IF source.t = "array"
    THEN Arr([i \in 1..MaxOf(Len(object.items), Len(source.items)) |->
                IF i <= Len(source.items)
                THEN mergedValue(IF i <= Len(object.items) THEN object.items[i] ELSE Undef,
                                 source.items[i])
                ELSE object.items[i]])
    ELSE Obj([k \in DOMAIN object.o \cup DOMAIN source.o |->
                IF k \in DOMAIN source.o
                THEN mergedValue(Get(object, k), source.o[k])
                ELSE object.o[k]])

\* merge(object, ...sources): the sources are merged in, left to right.
RECURSIVE merge(_, _)
merge(object, sources) ==
    IF Len(sources) = 0 THEN object
    ELSE merge(baseMerge(object, Head(sources)), Tail(sources))

\* ------------------------------------------------------------------- state

VARIABLES
    args,                \* the argument object given to getDeployerFactory
    procEnv,             \* process.env[envNameEnvVar], once it has been read
    gitBranch,           \* what getGitBranch() settled with, once it was called
    pc,                  \* the position of getDeployerFactory
    deployType,          \* the deploy type getDeployTypeAndEnv returned
    env,                 \* the environment name getDeployTypeAndEnv returned
    deployTypeFromWhere, \* the provenance label of the deploy type
    envNameFromWhere,    \* the provenance label of the environment name
    probes,              \* the lookups made so far, in order
    error,               \* the error getDeployerFactory failed with
    logged,              \* the logNamedValue calls made, in order
    finalArgs,           \* the effective layer the deployer factory closes over
    validation,          \* a call of runEnvNameValidator: its arguments and outcome
    resolution,          \* a call of resolveValue: its arguments and outcome
    construction,        \* a call of the Deployer constructor: its arguments and progress
    run,                 \* a command of main: its deployers, steps and progress
    document,            \* a call of validateConfig: the document and its progress
    polling              \* the teardown step of one stack: teardown, then waitForDeleted

vars == <<args, procEnv, gitBranch, pc, deployType, env, deployTypeFromWhere,
          envNameFromWhere, probes, error, logged, finalArgs, validation, resolution,
          construction, run, document, polling>>

\* What the deployer factory leaves alone.
others == <<validation, resolution, construction, run, document, polling>>

Idle == [t |-> "idle"]
Pending == [t |-> "pending"]
Unread == [t |-> "unread"]
Rejected == [t |-> "rejected"]
NoError == [error |-> "none", message |-> NoMessage]

config == Get(args, "config")

\* The name of the environment variable consulted (the --env-name-env-var default).
EnvVarName == <<"C", "I">>

\* ------------------------------------------------- getDeployTypeAndEnv steps

returnPair(dt, e, dtFrom, envFrom) ==
    /\ deployType' = dt
    /\ env' = e
    /\ deployTypeFromWhere' = dtFrom
    /\ envNameFromWhere' = envFrom
    /\ pc' = "validate"
    /\ error' = error

throwError(class, message) ==
    /\ error' = [error |-> class, message |-> message]
    /\ pc' = "failed"
    /\ UNCHANGED <<deployType, env, deployTypeFromWhere, envNameFromWhere>>

fallThrough(next) ==
    /\ pc' = next
    /\ UNCHANGED <<deployType, env, deployTypeFromWhere, envNameFromWhere, error>>

\* Strategy 1: both env and deployType are given.
StrategyExplicitPair ==
    /\ pc = "strategy1"
    /\ IF Truthy(Get(args, "env")) /\ Truthy(Get(args, "deployType"))
       THEN returnPair(Get(args, "deployType"), Get(args, "env"),
                       "from DEPLOY-TYPE arg", "from --env option")
       ELSE fallThrough("strategy2")
    /\ UNCHANGED <<args, procEnv, gitBranch, probes, logged, finalArgs>>
    /\ UNCHANGED others

\* Mutant: the `if (env)` branch is missing, so an env given without a deploy
\* type goes on to the environment variable.
StrategyExplicitEnv_Skipped ==
    /\ pc = "strategy2"
    /\ fallThrough("strategy3")
    /\ UNCHANGED <<args, procEnv, gitBranch, probes, logged, finalArgs>>
    /\ UNCHANGED others

\* Strategy 2: env is given, the deploy type is its first "-" separated part.
StrategyExplicitEnv ==
    /\ pc = "strategy2"
    /\ IF Truthy(Get(args, "env"))
       THEN returnPair(Str(SplitLimit(Get(args, "env").s, <<"-">>, 1)[1]), Get(args, "env"),
                       "from environment name", "from --env option")
       ELSE fallThrough("strategy3")
    /\ UNCHANGED <<args, procEnv, gitBranch, probes, logged, finalArgs>>
    /\ UNCHANGED others

\* The characters strings are drawn over, and the strings of at most n of them.
Chars == {"a", "B", "-", "/"}
Strings(n) == UNION {[1..k -> Chars] : k \in 0..n}

\* What process.env[envNameEnvVar] may hold: nothing, or any string (the empty one too).
ProcEnvValues == {Undef} \cup {Str(s) : s \in Strings(MaxLen)}

\* What getGitBranch() may settle with: a rejection, no branch (a detached
\* HEAD gives null), or a branch name.
BranchOutcomes == {Rejected, Null} \cup {Str(s) : s \in Strings(MaxLen) \ {<<>>}}

\* Mutant: the given deploy type is not checked against the expected one.
StrategyEnvVar_NoCrossCheck ==
    /\ pc = "strategy3"
    /\ \E ciEnvName \in ProcEnvValues :
        /\ procEnv' = ciEnvName
        /\ probes' = Append(probes, "process.env")
        /\ IF Truthy(ciEnvName)
           THEN LET envNameParts == SplitStr(ciEnvName.s, Get(args, "envNameSeparator").s)
                IN returnPair(Str(envNameParts[1]), Str(JoinStr(envNameParts, <<"-">>)),
                              IF Truthy(Get(args, "deployType")) THEN "from DEPLOY-TYPE arg"
                              ELSE "from environment name",
                              "from environment variable")
           ELSE fallThrough("strategy4")
    /\ UNCHANGED <<args, gitBranch, logged, finalArgs>>
    /\ UNCHANGED others

\* Strategy 3: the environment name is read from the environment variable.
\* The separator is a non-empty string.
StrategyEnvVar ==
    /\ pc = "strategy3"
    /\ \E ciEnvName \in ProcEnvValues :
        /\ procEnv' = ciEnvName
        /\ probes' = Append(probes, "process.env")
        /\ IF Truthy(ciEnvName)
           THEN LET envNameParts == SplitStr(ciEnvName.s, Get(args, "envNameSeparator").s)
                    expectedDeployType == Str(envNameParts[1])
                    given == Get(args, "deployType")
                IN IF Truthy(given) /\ ~StrictEq(given, expectedDeployType)
                   THEN throwError("CallerError",
                                   Message("Environment name does not match given deploy type: ",
                                           ciEnvName))
                   ELSE returnPair(expectedDeployType,
                                   Str(JoinStr(envNameParts, <<"-">>)),
                                   IF Truthy(given) THEN "from DEPLOY-TYPE arg"
                                   ELSE "from environment name",
                                   "from environment variable")
           ELSE fallThrough("strategy4")
    /\ UNCHANGED <<args, gitBranch, logged, finalArgs>>
    /\ UNCHANGED others

\* branchDeployType.indexOf(deployType) >= 0
IsBranchDeployType(dt) ==
    \E i \in 1..Len(Get(args, "branchDeployType").items) :
        StrictEq(Get(args, "branchDeployType").items[i], dt)

\* Strategy 4: the deploy type is a branch deploy type, getGitBranch() is
\* called and awaited.
StrategyBranch ==
    /\ pc = "strategy4"
    /\ IF Truthy(Get(args, "deployType")) /\ IsBranchDeployType(Get(args, "deployType"))
       THEN /\ probes' = Append(probes, "getGitBranch")
            /\ fallThrough("awaitBranch")
       ELSE /\ probes' = probes
            /\ fallThrough("strategy5")
    /\ UNCHANGED <<args, procEnv, gitBranch, logged, finalArgs>>
    /\ UNCHANGED others

\* Mutant: a failed branch lookup falls through to the next strategy.
BranchLookupSettles_FallsThrough ==
    /\ pc = "awaitBranch"
    /\ \E brName \in BranchOutcomes :
        /\ gitBranch' = brName
        /\ IF IsStr(brName)
           THEN returnPair(Get(args, "deployType"),
                           Str(Get(args, "deployType").s \o <<"-">> \o
                               ReplaceFirst(ToLowerCase(brName.s), <<"/">>, <<"-">>)),
                           "from DEPLOY-TYPE arg", "from GIT branch name")
           ELSE fallThrough("strategy5")
    /\ UNCHANGED <<args, procEnv, probes, logged, finalArgs>>
    /\ UNCHANGED others

\* getGitBranch() settles: the environment name is built from the branch
\* name, or the failure (a rejection, or the TypeError of null.toLowerCase())
\* is caught and an Error is thrown.
BranchLookupSettles ==
    /\ pc = "awaitBranch"
    /\ \E brName \in BranchOutcomes :
        /\ gitBranch' = brName
        /\ IF IsStr(brName)
           THEN returnPair(Get(args, "deployType"),
                           Str(Get(args, "deployType").s \o <<"-">> \o
                               ReplaceFirst(ToLowerCase(brName.s), <<"/">>, <<"-">>)),
                           "from DEPLOY-TYPE arg", "from GIT branch name")
           ELSE throwError("Error",
                           Message("Git branch name could not be determined, and not set: ",
                                   Get(args, "envNameEnvVar")))
    /\ UNCHANGED <<args, procEnv, probes, logged, finalArgs>>
    /\ UNCHANGED others

\* Strategy 5: the deploy type is given and its configuration has one valid
\* environment name.
StrategySingleValidEnv ==
    /\ pc = "strategy5"
    /\ LET given == Get(args, "deployType")
           deployTypes == Get(config, "deployTypes")
           entry == IF Truthy(given) /\ Truthy(deployTypes)
                    THEN Get(deployTypes, given.s) ELSE Undef
           validEnvs == IF Truthy(entry) THEN Get(entry, "validEnvs") ELSE Undef
       IN /\ probes' = IF Truthy(entry) THEN Append(probes, "validEnvs") ELSE probes
          /\ IF Truthy(given)
             THEN IF Truthy(validEnvs) /\ IsArr(validEnvs) /\ Len(validEnvs.items) = 1
                  THEN returnPair(given, validEnvs.items[1], "from DEPLOY-TYPE arg",
                                  "only one valid env name for deploy type")
                  ELSE IF Truthy(validEnvs) /\ IsStr(validEnvs)
                  THEN returnPair(given, validEnvs, "from DEPLOY-TYPE arg",
                                  "only one valid env name for deploy type")
                  ELSE throwError("CallerError",
                                  Message("Could not autmatically determine environment name from DEPLOY-TYPE. Consider using the --env option", Undef))
             ELSE throwError("CallerError",
                             Message("Could not autmatically determine environment name. Consider specifying the DEPLOY-TYPE, or use the --env option", Undef))
    /\ UNCHANGED <<args, procEnv, gitBranch, logged, finalArgs>>
    /\ UNCHANGED others

\* ------------------------------------------------- getDeployerFactory steps

\* The property key a value is used as: obj[key] converts key to a string.
PropertyKey(v) == ToStringJs(v)

\* (config.deployTypes || {})[deployType] || {}
deployTypeConfigOf(cfg, dt) ==
    LET deployTypes == IF Truthy(Get(cfg, "deployTypes")) THEN Get(cfg, "deployTypes")
                       ELSE EmptyObj
        entry == Get(deployTypes, PropertyKey(dt))
    IN IF Truthy(entry) THEN entry ELSE EmptyObj

\* config.global || {}
globalConfigOf(cfg) == IF Truthy(Get(cfg, "global")) THEN Get(cfg, "global") ELSE EmptyObj

\* (config.envs || {})[env] || {}
envConfigOf(cfg, e) ==
    LET envs == IF Truthy(Get(cfg, "envs")) THEN Get(cfg, "envs") ELSE EmptyObj
        entry == Get(envs, PropertyKey(e))
    IN IF Truthy(entry) THEN entry ELSE EmptyObj

\* The two logNamedValue calls, then the check of the deploy type and of the
\* environment name against the declared deploy types.
CheckDeployType ==
    /\ pc = "validate"
    /\ logged' = logged \o <<<<"Deploy Type", env, envNameFromWhere>>,
                             <<"Target Environment", deployType, deployTypeFromWhere>>>>
    /\ LET deployTypes == Get(config, "deployTypes")
       IN IF Truthy(deployTypes)
          THEN IF ~HasOwn(deployTypes, PropertyKey(deployType))
               THEN /\ error' = [error |-> "CallerError",
                                 message |-> Message("No such deploy type defined in config: ",
                                                     deployType)]
                    /\ pc' = "failed"
               ELSE LET r == checkForValidEnv(Get(deployTypes, PropertyKey(deployType)), env)
                    IN IF r.error # "none"
                       THEN /\ error' = [error |-> r.error, message |-> r.message]
                            /\ pc' = "failed"
                       ELSE IF ~Truthy(r.value)
                       THEN /\ error' = [error |-> "CallerError",
                                         message |-> Message("Environment is not valid for specified deploy type: ",
                                                             env)]
                            /\ pc' = "failed"
                       ELSE /\ error' = error
                            /\ pc' = "merge"
          ELSE /\ error' = error
               /\ pc' = "merge"
    /\ UNCHANGED <<args, procEnv, gitBranch, deployType, env, deployTypeFromWhere,
                   envNameFromWhere, probes, finalArgs>>
    /\ UNCHANGED others

\* Mutant: the deploy type layer is merged after the environment layer.
layersOf_DeployTypeOverEnv(a, dt, e) ==
    <<globalConfigOf(Get(a, "config")), envConfigOf(Get(a, "config"), e),
      deployTypeConfigOf(Get(a, "config"), dt), a, Obj([env |-> e])>>

\* Mutant: the deploy type layer is merged without its validEnvs.
layersOf_WithoutValidEnvs(a, dt, e) ==
    LET layer == deployTypeConfigOf(Get(a, "config"), dt)
    IN <<globalConfigOf(Get(a, "config")),
         Obj([k \in DOMAIN layer.o \ {"validEnvs"} |-> layer.o[k]]),
         envConfigOf(Get(a, "config"), e), a, Obj([env |-> e])>>

\* The layers getDeployerFactory merges, lowest precedence first.
layersOf(a, dt, e) ==
    <<globalConfigOf(Get(a, "config")), deployTypeConfigOf(Get(a, "config"), dt),
      envConfigOf(Get(a, "config"), e), a, Obj([env |-> e])>>

\* finalArgs = merge({}, globalConfig, deployTypeConfig, envConfig, args, { env }),
\* and the deployer factory closing over it is returned.
MergeLayers ==
    /\ pc = "merge"
    /\ finalArgs' = merge(EmptyObj, layersOf(args, deployType, env))
    /\ pc' = "done"
    /\ UNCHANGED <<args, procEnv, gitBranch, deployType, env, deployTypeFromWhere,
                   envNameFromWhere, probes, error, logged>>
    /\ UNCHANGED others

\* ------------------------------------------------------------------ inputs

A == <<"a">>
B == <<"B">>

\* A deploy type layer: its validEnvs (left out when undefined) and a role.
DeployTypeLayer(validEnvs, rest) ==
    Obj(IF validEnvs = Undef THEN rest ELSE [validEnvs |-> validEnvs] @@ rest)

\* The validEnvs values the factory is run with: none, the literal strings,
\* regular expressions, predicates, and lists of these.
FactoryValidators ==
    {Undef, Str(<<>>), Str(A), Str(<<"a", "-">>),
     Re("prefix", A), Re("contains", A), Re("contains", <<"-">>),
     Fn("true"), Fn("false"), Fn("throwsA"),
     Arr(<<>>), Arr(<<Str(A)>>), Arr(<<Str(<<"a", "-">>), Str(A)>>),
     Arr(<<Re("contains", A)>>), Arr(<<Re("prefix", A)>>), Arr(<<Fn("true")>>),
     Arr(<<Arr(<<Str(A)>>)>>), Arr(<<Undef>>), Arr(<<Fn("throwsB"), Str(A)>>)}

\* config.deployTypes: not declared, declared empty, or declaring deploy type "a".
DeployTypesOf(layers) ==
    {Undef, EmptyObj} \cup {Obj(A :> layer) : layer \in layers}

MkConfig(deployTypes, global, envs) ==
    Obj([deployTypes |-> deployTypes, global |-> global, envs |-> envs])

\* The args object: the resolution options and the run-time overrides.
MkArgs(e, dt, sep, branchTypes, cfg, overrides) ==
    Obj(overrides @@
        [env |-> e, deployType |-> dt, envNameEnvVar |-> Str(EnvVarName),
         envNameSeparator |-> Str(sep), branchDeployType |-> branchTypes,
         config |-> cfg])

EnvArgs == {Undef} \cup {Str(s) : s \in Strings(MaxLen)}
DeployTypeArgs == {Undef, Str(<<>>), Str(A), Str(B)}
Separators == {<<"/">>, <<"-">>}
BranchDeployTypes == {Arr(<<>>), Arr(<<Str(A)>>)}

NoOverrides == [k \in {} |-> Undef]

InitFactory(argsSet) ==
    /\ args \in argsSet
    /\ procEnv = Unread
    /\ gitBranch = Unread
    /\ pc = "strategy1"
    /\ deployType = Undef
    /\ env = Undef
    /\ deployTypeFromWhere = ""
    /\ envNameFromWhere = ""
    /\ probes = <<>>
    /\ error = NoError
    /\ logged = <<>>
    /\ finalArgs = Undef
    /\ validation = Idle
    /\ resolution = Idle
    /\ construction = Idle
    /\ run = Idle
    /\ document = Idle
    /\ polling = Idle

\* Every combination of the resolution inputs, over one document shape.
ResolutionArgs ==
    {MkArgs(e, dt, sep, bts,
            MkConfig(dts, Obj([role |-> Str(<<"g">>)]),
                     Obj(<<"a", "-">> :> Obj([role |-> Str(<<"e">>)]))),
            NoOverrides) :
        e \in EnvArgs, dt \in DeployTypeArgs, sep \in Separators,
        bts \in BranchDeployTypes,
        dts \in DeployTypesOf({DeployTypeLayer(v, [role |-> Str(<<"d">>)]) :
                                  v \in FactoryValidators})}

\* A configuration layer whose values name the layer they come from (tag):
\* role when hasRole, params with the keys paramKeys when that set is not
\* empty, and the further fields of rest.
NoFields == [k \in {} |-> Undef]
TaggedLayer(tag, hasRole, paramKeys, rest) ==
    Obj((IF hasRole THEN [role |-> Str(<<tag>>)] ELSE NoFields)
        @@ (IF paramKeys = {} THEN NoFields
            ELSE [params |-> Obj([n \in paramKeys |-> Str(<<tag>>)])])
        @@ rest)

ParamKeySets == {{}, {"p1"}, {"p1", "p2"}}

\* The stackTags and env fields the global and the environment layer may add.
GlobalExtras == {NoFields,
                 [stackTags |-> Obj([t1 |-> Str(<<"g">>), t2 |-> Str(<<"g">>)]),
                  env |-> Str(<<"g">>)]}
EnvLayerExtras == {NoFields, [stackTags |-> Obj([t1 |-> Str(<<"e">>)])]}

\* Every combination of what the four layers define, for the explicit pair
\* ("a", "a-"); the deploy type layer accepts every name starting with "a".
ExplicitPairLayeredArgs ==
    {MkArgs(Str(<<"a", "-">>), Str(A), <<"/">>, Arr(<<Str(A)>>),
            MkConfig(Obj(A :> TaggedLayer("d", dr, dp, [validEnvs |-> Re("prefix", A)])),
                     TaggedLayer("g", gr, gp, gx),
                     Obj(<<"a", "-">> :> TaggedLayer("e", er, ep, ex))),
            TaggedLayer("o", or, op, NoFields).o) :
        gr \in BOOLEAN, gp \in ParamKeySets, gx \in GlobalExtras,
        dr \in BOOLEAN, dp \in ParamKeySets,
        er \in BOOLEAN, ep \in ParamKeySets, ex \in EnvLayerExtras,
        or \in BOOLEAN, op \in ParamKeySets}

\* The same layers, fully defined or bare, with the environment name left to
\* the other strategies.
DerivedEnvLayeredArgs ==
    {MkArgs(e, dt, <<"/">>, bts,
            MkConfig(Obj(A :> TaggedLayer("d", b, {"p1"}, [validEnvs |-> v])),
                     TaggedLayer("g", TRUE, {"p1", "p2"},
                                 [stackTags |-> Obj([t1 |-> Str(<<"g">>)]),
                                  env |-> Str(<<"g">>)]),
                     Obj(<<"a", "-">> :> TaggedLayer("e", b, {"p2"}, NoFields))),
            TaggedLayer("o", b, {}, NoFields).o) :
        e \in {Undef, Str(<<"a">>)}, dt \in {Undef, Str(A)},
        bts \in BranchDeployTypes, b \in BOOLEAN,
        v \in {Re("prefix", A), Str(<<"a", "-">>), Arr(<<Str(<<"a", "-">>)>>)}}

\* The capabilities a layer may give: none, a list of one, a longer list;
\* the items name the layer.
CapabilityLists(tag) ==
    {NoFields,
     [capabilities |-> Arr(<< Str(<<tag>>) >>)],
     [capabilities |-> Arr([i \in 1..MaxListLen |-> Str(<<tag>>)])]}

\* Every combination of the capabilities of the four layers, for the
\* explicit pair ("a", "a-").
ListLayeredArgs ==
    {MkArgs(Str(<<"a", "-">>), Str(A), <<"/">>, Arr(<<Str(A)>>),
            MkConfig(Obj(A :> TaggedLayer("d", FALSE, {}, dc)),
                     TaggedLayer("g", FALSE, {}, gc),
                     Obj(<<"a", "-">> :> TaggedLayer("e", FALSE, {}, ec))),
            oc) :
        gc \in CapabilityLists("g"), dc \in CapabilityLists("d"),
        ec \in CapabilityLists("e"), oc \in CapabilityLists("o")}

InitMerge ==
    InitFactory(ExplicitPairLayeredArgs \cup DerivedEnvLayeredArgs \cup ListLayeredArgs)


Init == InitFactory(ResolutionArgs)

Next ==
    \/ StrategyExplicitPair
    \/ StrategyExplicitEnv
    \/ StrategyEnvVar
    \/ StrategyBranch
    \/ BranchLookupSettles
    \/ StrategySingleValidEnv
    \/ CheckDeployType
    \/ MergeLayers

Spec == Init /\ [][Next]_vars

\* The factory run over every combination of what the layers define.
SpecMerge == InitMerge /\ [][Next]_vars

\* ------------------------------------------- runEnvNameValidator alone

\* The factory is not running.
FactoryIdle ==
    /\ args = EmptyObj
    /\ procEnv = Unread
    /\ gitBranch = Unread
    /\ pc = "idle"
    /\ deployType = Undef
    /\ env = Undef
    /\ deployTypeFromWhere = ""
    /\ envNameFromWhere = ""
    /\ probes = <<>>
    /\ error = NoError
    /\ logged = <<>>
    /\ finalArgs = Undef

factoryVars == <<args, procEnv, gitBranch, pc, deployType, env, deployTypeFromWhere,
                 envNameFromWhere, probes, error, logged, finalArgs>>

\* The sequences of at most n elements of S.
SeqsUpTo(S, n) == UNION {[1..k -> S] : k \in 0..n}

\* The validators that are no list: a literal, a regular expression, the
\* predicates, and null, which is no validator at all.
ValidatorLeaves ==
    {Str(A), Re("contains", <<"-">>), Re("prefix", <<"a", "B">>), Null}
    \cup {Fn(id) : id \in PredIds \ {"hasDash"}}

\* The lists nested inside a list validator.
InnerLists == {Arr(<<>>), Arr(<<Str(A)>>), Arr(<<Fn("throwsB")>>)}

Validators ==
    ValidatorLeaves
    \cup {Arr(items) : items \in SeqsUpTo(ValidatorLeaves \cup InnerLists, MaxListLen)}

InitValidator ==
    /\ FactoryIdle
    /\ resolution = Idle
    /\ construction = Idle
    /\ run = Idle
    /\ document = Idle
    /\ polling = Idle
    /\ \E v \in Validators, s \in Strings(MaxLen) :
          validation = [t |-> "call", validator |-> v, env |-> Str(s), outcome |-> Pending]

\* runEnvNameValidator(validator, env) is called and returns or throws.
RunValidator ==
    /\ validation.t = "call"
    /\ validation.outcome = Pending
    /\ validation' = [validation EXCEPT
                        !.outcome = runEnvNameValidator(validation.validator, validation.env)]
    /\ UNCHANGED <<factoryVars, resolution, construction, run, document, polling>>

NextValidator == RunValidator

SpecValidator == InitValidator /\ [][NextValidator]_vars

\* ------------------------------------------------------------ resolveValue

\* The keys of the parameter dictionary are strings like any other: here
\* "stack", "env" and the parameter names "p" and "q".
StackKey == <<"s", "t", "a", "c", "k">>
EnvKey == <<"e", "n", "v">>

\* The characters a placeholder name is made of: [0-9a-zA-Z_].
NameChars == {"s", "t", "a", "c", "k", "e", "n", "v", "p", "q", "x", "L", "1", "_"}

\* The end of the placeholder that starts with the "{" at position i of str:
\* the position of its "}", or 0 when no placeholder starts there.
RECURSIVE NameEnd(_, _)
NameEnd(str, j) ==
    IF j > Len(str) THEN 0
    ELSE IF str[j] \in NameChars THEN NameEnd(str, j + 1)
    ELSE IF str[j] = "}" THEN j
    ELSE 0
PlaceholderEnd(str, i) ==
    IF str[i] = "{" /\ i + 1 <= Len(str) /\ str[i + 1] \in NameChars
    THEN NameEnd(str, i + 1) ELSE 0

\* format(string, args) of string-template 1.0: every {name} is replaced, left
\* to right.  A placeholder between a "{" and a "}" is replaced by its bare
\* name; any other by args[name], or by nothing when args has no such key or
\* holds null or undefined there.
\* Mutant: a placeholder whose name dict does not hold is left as it stands.
replaceArg_KeepsUnknown(str, i, j, dict) ==
    LET name == SubSeq(str, i + 1, j - 1)
        escaped == /\ i > 1 /\ str[i - 1] = "{"
                   /\ j < Len(str) /\ str[j + 1] = "}"
    IN IF escaped THEN name
       ELSE IF ~HasOwn(dict, name) THEN SubSeq(str, i, j)
       ELSE IF Get(dict, name).t \in {"null", "undefined"} THEN <<>>
       ELSE ToStringJs(Get(dict, name))

\* The replacement of the placeholder that spans str[i..j].
replaceArg(str, i, j, dict) ==
    LET name == SubSeq(str, i + 1, j - 1)
        escaped == /\ i > 1 /\ str[i - 1] = "{"
                   /\ j < Len(str) /\ str[j + 1] = "}"
        found == IF HasOwn(dict, name) THEN Get(dict, name) ELSE Null
    IN IF escaped THEN name
       ELSE IF found.t \in {"null", "undefined"} THEN <<>>
       ELSE ToStringJs(found)

RECURSIVE formatFrom(_, _, _)
formatFrom(str, i, dict) ==
    IF i > Len(str) THEN <<>>
    ELSE LET j == PlaceholderEnd(str, i)
         IN IF j = 0 THEN <<str[i]>> \o formatFrom(str, i + 1, dict)
            ELSE replaceArg(str, i, j, dict) \o formatFrom(str, j + 1, dict)

\* Mutant: the formatted text is formatted once more, so placeholders that
\* arrive with a substituted value are resolved too.
format_TwoPasses(str, dict) == Str(formatFrom(formatFrom(str.s, 1, dict), 1, dict))

format(str, dict) == Str(formatFrom(str.s, 1, dict))

\* The resolvable functions the model knows: what each returns when called
\* with (targetStack, envName, dict), and what it leaves in dict.  The four
\* defaults of the Deployer are among them.
StacksDir == <<"s", "t", "a", "c", "k", "s">>
BuildDir == <<"b", "u", "i", "l", "d">>
StackYml == <<"s", "t", "a", "c", "k", ".", "y", "m", "l">>
ResolvableIds == {"stackDashEnv", "dictStack", "looksLikeTemplate", "nothing", "writesDict"}

CallResolvable(fn, targetStack, envName, dict) ==
    CASE fn.id = "stackDashEnv" ->
            [value |-> Str(targetStack.s \o <<"-">> \o envName.s), dict |-> dict]
      [] fn.id = "dictStack" -> [value |-> Get(dict, StackKey), dict |-> dict]
      [] fn.id = "looksLikeTemplate" ->
            [value |-> Str(<<"{">> \o EnvKey \o <<"}">>), dict |-> dict]
      [] fn.id = "dictQ" -> [value |-> Get(dict, <<"q">>), dict |-> dict]
      [] fn.id = "returnsNull" -> [value |-> Null, dict |-> dict]
      [] fn.id = "returnsEmpty" -> [value |-> Str(<<>>), dict |-> dict]
      [] fn.id = "DEFAULT_STACK_NAME_GENERATOR" ->
            [value |-> Str(targetStack.s \o <<"-">> \o envName.s), dict |-> dict]
      [] fn.id = "DEFAULT_INPUT_TEMPLATE" ->
            [value |-> Str(StacksDir \o <<"/">> \o targetStack.s \o <<"/">> \o StackYml),
             dict |-> dict]
      [] fn.id = "DEFAULT_OUTPUT_TEMPLATE" ->
            [value |-> Str(BuildDir \o <<"/">> \o StacksDir \o <<"/">> \o targetStack.s
                               \o <<"/">> \o envName.s \o <<"/">> \o StackYml),
             dict |-> dict]
      [] fn.id = "DEFAULT_DEPLOY_BUCKET_PREFIX" ->
            [value |-> Str(targetStack.s \o <<"/">> \o envName.s), dict |-> dict]
      [] fn.id = "rawTags" ->
            [value |-> Obj(<<"{", "p", "}">> :> Str(<<"{", "p", "}">>)), dict |-> dict]
      [] fn.id = "dictItself" -> [value |-> dict, dict |-> dict]
      [] fn.id = "writesDict" ->
            [value |-> Str(<<"x">>),
             dict |-> Obj([k \in DOMAIN dict.o \cup {<<"x">>} |-> Str(<<"x">>)])]
      [] OTHER -> [value |-> Undef, dict |-> dict]

\* Mutant: the defaults are spread after params, so they win over its entries.
spreadDict_DefaultsWin(targetStack, envName, params) ==
    Obj([k \in {StackKey, EnvKey} \cup DOMAIN params.o |->
            IF k = StackKey THEN targetStack
            ELSE IF k = EnvKey THEN envName
            ELSE params.o[k]])

\* { stack: targetStack, env: envName, ...params }
spreadDict(targetStack, envName, params) ==
    Obj([k \in {StackKey, EnvKey} \cup DOMAIN params.o |->
            IF k \in DOMAIN params.o THEN params.o[k]
            ELSE IF k = StackKey THEN targetStack
            ELSE envName])

\* resolveValue(value, targetStack, envName, params): the value returned, the
\* calls made to value, and params as the call leaves it (dict is an object
\* of its own, so what the function writes to it does not reach params).
resolveValue(value, targetStack, envName, params) ==
    LET dict == spreadDict(targetStack, envName, params)
    IN IF value.t = "function"
       THEN [result |-> CallResolvable(value, targetStack, envName, dict).value,
             calls |-> <<<<targetStack, envName, dict>>>>,
             params |-> params]
       ELSE IF value.t = "string"
       THEN [result |-> format(value, dict), calls |-> <<>>, params |-> params]
       ELSE [result |-> value, calls |-> <<>>, params |-> params]

\* The values resolved: the functions, templates, and values of other types.
ResolvableValues ==
    {Fn(id) : id \in ResolvableIds}
    \cup {Str(<<>>), Str(<<"x">>),
          Str(<<"{">> \o StackKey \o <<"}", "-", "{">> \o EnvKey \o <<"}">>),
          Str(<<"{", "p", "}">>), Str(<<"{", "{">> \o EnvKey \o <<"}", "}">>),
          Str(<<"{", "q", "}", "{">> \o EnvKey)}
    \cup {Undef, Null, JsTrue, Arr(<<Str(<<"{", "p", "}">>)>>),
          Obj(<<"p">> :> Str(<<"{", "p", "}">>))}

\* What a parameter may hold.
ParamValues == {Str(<<"1">>), Str(<<"{", "q", "}">>), Fn("stackDashEnv"), Undef}

\* The params objects: any of the keys stack, env, p and q, with any values.
ParamObjects ==
    UNION {{Obj(f) : f \in [K -> ParamValues]} : K \in SUBSET {StackKey, EnvKey, <<"p">>, <<"q">>}}

InitResolve ==
    /\ FactoryIdle
    /\ validation = Idle
    /\ construction = Idle
    /\ run = Idle
    /\ document = Idle
    /\ polling = Idle
    /\ \E v \in ResolvableValues, st \in {Str(<<"L">>)}, e \in {Str(<<"e", "1">>), Str(<<"p">>)},
          ps \in ParamObjects :
          resolution = [t |-> "call", value |-> v, targetStack |-> st, envName |-> e,
                        params |-> ps, outcome |-> Pending]

\* resolveValue(value, targetStack, envName, params) is called and returns.
ResolveValue ==
    /\ resolution.t = "call"
    /\ resolution.outcome = Pending
    /\ resolution' = [resolution EXCEPT
                        !.outcome = resolveValue(resolution.value, resolution.targetStack,
                                                 resolution.envName, resolution.params)]
    /\ UNCHANGED <<factoryVars, validation, construction, run, document, polling>>

NextResolve == ResolveValue

SpecResolve == InitResolve /\ [][NextResolve]_vars

\* ------------------------------------------------------ Deployer constructor

\* The six fields the constructor resolves, in the order it resolves them,
\* and the order in which it checks them.
ResolvedFirst == <<"inputTemplate", "outputTemplate", "cfnStackName">>
ResolvedLast == <<"deployBucket", "deployBucketPrefix", "role">>
CheckedFields == <<"inputTemplate", "outputTemplate", "cfnStackName", "deployBucket",
                   "deployBucketPrefix", "role">>

\* An object whose entries are taken in order (Object.entries): the list of
\* its [name, value] pairs in insertion order.
Entries(items) == [t |-> "entries", items |-> items]

\* The default of a destructured config property, used when the property is
\* absent or undefined (not when it is null).
defaultOf(name) ==
    CASE name = "deployBucketPrefix" -> Fn("DEFAULT_DEPLOY_BUCKET_PREFIX")
      [] name = "role" -> Str(<<"d", "e", "f", "a", "u", "l", "t">>)
      [] name = "envNameParamName" -> Str(EnvKey)
      [] name = "stackNameParamName" -> Str(StackKey)
      [] name = "cfnStackName" -> Fn("DEFAULT_STACK_NAME_GENERATOR")
      [] name = "inputTemplate" -> Fn("DEFAULT_INPUT_TEMPLATE")
      [] name = "outputTemplate" -> Fn("DEFAULT_OUTPUT_TEMPLATE")
      [] name = "stackTags" -> Entries(<<>>)
      [] OTHER -> Undef

destructured(cfg, name) ==
    IF Get(cfg, name) = Undef THEN defaultOf(name) ELSE Get(cfg, name)

\* path.dirname(p) for a string p: p up to the last "/" that has something
\* other than "/" after it; "." or "/" when there is none.
dirname(p) ==
    LET cuts == {k \in 2..Len(p) : p[k] = "/" /\ \E j \in (k + 1)..Len(p) : p[j] # "/"}
    IN IF cuts = {}
       THEN (IF Len(p) > 0 /\ p[1] = "/" THEN <<"/">> ELSE <<".">>)
       ELSE LET k == CHOOSE c \in cuts : \A d \in cuts : d <= c
            IN IF k = 2 /\ p[1] = "/" THEN <<"/", "/">> ELSE SubSeq(p, 1, k - 1)

\* value.length, or -1 where the value has none.
lengthOf(v) ==
    IF IsStr(v) THEN Len(v.s) ELSE IF IsArr(v) THEN Len(v.items) ELSE -1

\* value == null || value.length === 0
emptyOrNull(v) == v \in {Null, Undef} \/ lengthOf(v) = 0

\* One call of localResolve(value) while this.parameters holds parameters:
\* the result, and the call made to value when it is a function.
localResolve(site, key, value, targetStack, envName, parameters) ==
    LET r == resolveValue(value, targetStack, envName, parameters)
    IN [result |-> r.result,
        calls |-> IF r.calls = <<>> THEN <<>>
                  ELSE <<[site |-> site, key |-> key, fn |-> value,
                          third |-> r.calls[1][3]]>>]

\* Mutant: this.parameters grows as the parameters are resolved, so a
\* parameter sees the resolved values of the parameters before it.
parametersDuringPass_Accumulates(resolvedSoFar) == resolvedSoFar

\* this.parameters while the params are being resolved: the empty object the
\* constructor starts with, since the object under construction is assigned
\* only when every parameter has been resolved.
parametersDuringPass(resolvedSoFar) == EmptyObj

\* buildObject(Object.keys(params), paramName => localResolve(params[paramName])),
\* from the i-th key on: the object built and the calls made.
RECURSIVE resolveParams(_, _, _, _, _, _)
resolveParams(keys, i, params, targetStack, envName, built) ==
    IF i > Len(keys) THEN [built |-> built, calls |-> <<>>]
    ELSE LET r == localResolve("params", keys[i], params.o[keys[i]], targetStack, envName,
                               parametersDuringPass(built))
             rest == resolveParams(keys, i + 1, params, targetStack, envName,
                                   Obj((keys[i] :> r.result) @@ built.o))
         IN [built |-> rest.built, calls |-> r.calls \o rest.calls]

\* Mutant: the two identity entries are spread after the resolved params.
identityAndParams_IdentityWins(envNameParamName, stackNameParamName, targetStack, envName, built) ==
    Obj((stackNameParamName.s :> targetStack) @@ (envNameParamName.s :> envName) @@ built.o)

\* { [envNameParamName]: envName, [stackNameParamName]: targetStack, ...built }
identityAndParams(envNameParamName, stackNameParamName, targetStack, envName, built) ==
    Obj(built.o @@ (stackNameParamName.s :> targetStack) @@ (envNameParamName.s :> envName))

\* The fields named by names[i..], resolved in order against parameters.
RECURSIVE resolveFields(_, _, _, _, _, _)
resolveFields(names, i, cfg, targetStack, envName, parameters) ==
    IF i > Len(names) THEN [values |-> NoFields, calls |-> <<>>]
    ELSE LET r == localResolve(names[i], <<>>, destructured(cfg, names[i]), targetStack,
                               envName, parameters)
             rest == resolveFields(names, i + 1, cfg, targetStack, envName, parameters)
         IN [values |-> (names[i] :> r.result) @@ rest.values, calls |-> r.calls \o rest.calls]

\* buildObject(Object.entries(stackTags), ([tagName]) => localResolve(tagName),
\*             (key, idx, keys, [tagName, tagValue]) => localResolve(tagValue)):
\* the names are resolved first, then the values; of two entries whose names
\* resolve to the same text the later one stays.
RECURSIVE resolveTagNames(_, _, _, _, _)
resolveTagNames(items, i, targetStack, envName, parameters) ==
    IF i > Len(items) THEN [names |-> <<>>, calls |-> <<>>]
    ELSE LET r == localResolve("tagName", items[i].name.s, items[i].name, targetStack, envName,
                               parameters)
             rest == resolveTagNames(items, i + 1, targetStack, envName, parameters)
         IN [names |-> <<r.result>> \o rest.names, calls |-> r.calls \o rest.calls]

RECURSIVE resolveTagValues(_, _, _, _, _, _)
resolveTagValues(items, names, i, targetStack, envName, parameters) ==
    IF i > Len(items) THEN [tags |-> NoFields, calls |-> <<>>]
    ELSE LET r == localResolve("tagValue", items[i].name.s, items[i].value, targetStack,
                               envName, parameters)
             rest == resolveTagValues(items, names, i + 1, targetStack, envName, parameters)
         IN [tags |-> rest.tags @@ (names[i].s :> r.result), calls |-> r.calls \o rest.calls]

\* Mutant: the names of a map of tags are used as given, only the values are
\* resolved.
resolveStackTags_NamesAsGiven(stackTags, targetStack, envName, parameters) ==
    IF stackTags.t = "function"
    THEN [stackTags |-> CallResolvable(stackTags, targetStack, envName, parameters).value,
          calls |-> <<[site |-> "stackTags", key |-> <<>>, fn |-> stackTags,
                       third |-> parameters]>>]
    ELSE LET values == resolveTagValues(stackTags.items,
                                        [k \in 1..Len(stackTags.items) |-> stackTags.items[k].name],
                                        1, targetStack, envName, parameters)
         IN [stackTags |-> Obj(values.tags), calls |-> values.calls]

\* The stackTags of the deployer: what the function returns when called with
\* (targetStack, envName, this.parameters), or the map with every name and
\* value resolved.
resolveStackTags(stackTags, targetStack, envName, parameters) ==
    IF stackTags.t = "function"
    THEN [stackTags |-> CallResolvable(stackTags, targetStack, envName, parameters).value,
          calls |-> <<[site |-> "stackTags", key |-> <<>>, fn |-> stackTags,
                       third |-> parameters]>>]
    ELSE LET names == resolveTagNames(stackTags.items, 1, targetStack, envName, parameters)
             values == resolveTagValues(stackTags.items, names.names, 1, targetStack,
                                        envName, parameters)
         IN [stackTags |-> Obj(values.tags), calls |-> names.calls \o values.calls]

\* What the constructor ends with: the deployer, or the error thrown, and in
\* both cases the calls it made to the functions of config and params.
Constructed(parameters, fields, outputDir, stackTags, calls) ==
    [error |-> "none", message |-> NoMessage, parameters |-> parameters, fields |-> fields,
     outputDir |-> outputDir, stackTags |-> stackTags, calls |-> calls]
ConstructorThrew(class, message, calls) ==
    [error |-> class, message |-> message, parameters |-> Undef, fields |-> NoFields,
     outputDir |-> Undef, stackTags |-> Undef, calls |-> calls]

\* The first of the checked fields whose resolved value is empty or null.
firstEmpty(fields) ==
    LET bad == {i \in 1..Len(CheckedFields) : emptyOrNull(fields[CheckedFields[i]])}
    IN IF bad = {} THEN 0 ELSE CHOOSE i \in bad : \A j \in bad : i <= j

\* path.dirname(this.outputTemplate): a TypeError for what is no string.
outputDirOf(outputTemplate) ==
    IF IsStr(outputTemplate) THEN Returned(Str(dirname(outputTemplate.s)))
    ELSE Threw("TypeError", Message("The \"path\" argument must be of type string", outputTemplate))

\* new Deployer(targetStack, envName, cfg, params), with keys the keys of
\* params in their order.
Deployer(targetStack, envName, cfg, params, keys) ==
    IF ~Truthy(targetStack)
    THEN ConstructorThrew("CallerError", Message("Target stack not specified", Undef), <<>>)
    ELSE IF ~Truthy(envName)
    THEN ConstructorThrew("CallerError", Message("Environment name not specified", Undef), <<>>)
    ELSE
    LET pass == resolveParams(keys, 1, params, targetStack, envName, EmptyObj)
        parameters == identityAndParams(destructured(cfg, "envNameParamName"),
                                        destructured(cfg, "stackNameParamName"),
                                        targetStack, envName, pass.built)
        first == resolveFields(ResolvedFirst, 1, cfg, targetStack, envName, parameters)
        outputDir == outputDirOf(first.values["outputTemplate"])
        last == resolveFields(ResolvedLast, 1, cfg, targetStack, envName, parameters)
        fields == first.values @@ last.values
        tags == resolveStackTags(destructured(cfg, "stackTags"), targetStack, envName,
                                 parameters)
    IN IF outputDir.error # "none"
       THEN ConstructorThrew(outputDir.error, outputDir.message, pass.calls \o first.calls)
       ELSE IF firstEmpty(fields) # 0
       THEN ConstructorThrew("CallerError",
                             Message("Resolved value for cannot be empty or null",
                                     [t |-> "name", name |-> CheckedFields[firstEmpty(fields)]]),
                             pass.calls \o first.calls \o last.calls)
       ELSE Constructed(parameters, fields, outputDir.value, tags.stackTags,
                        pass.calls \o first.calls \o last.calls \o tags.calls)

\* ------------------------------------------------- Deployer constructor alone

\* The orders the keys of a set may have in an object.
KeyOrders(K) ==
    {o \in [1..Cardinality(K) -> K] : \A i, j \in 1..Cardinality(K) : o[i] = o[j] => i = j}

MkCfg(inputTemplate, outputTemplate, cfnStackName, deployBucket, deployBucketPrefix, role) ==
    [inputTemplate |-> inputTemplate, outputTemplate |-> outputTemplate,
     cfnStackName |-> cfnStackName, deployBucket |-> deployBucket,
     deployBucketPrefix |-> deployBucketPrefix, role |-> role]

MkCall(targetStack, envName, cfg, params, keys) ==
    [t |-> "call", targetStack |-> targetStack, envName |-> envName, cfg |-> Obj(cfg),
     params |-> params, keys |-> keys, outcome |-> Pending]

TemplateP == Str(<<"{", "p", "}">>)
OnlyP == Obj(<<"p">> :> Str(<<"1">>))

\* Every combination of the six checked fields left to its default, empty,
\* or a template of the parameter p, with and without p; and each field in
\* turn null, an empty list, true, or a function that returns nothing, null
\* or the empty string, the others being fine.
FieldChoices == {Undef, Str(<<>>), TemplateP}
InitFields ==
    \/ \E i \in FieldChoices, o \in FieldChoices, c \in FieldChoices, b \in FieldChoices,
          x \in FieldChoices, r \in FieldChoices, ps \in {EmptyObj, OnlyP} :
          construction = MkCall(Str(<<"L">>), Str(<<"e", "1">>), MkCfg(i, o, c, b, x, r), ps,
                                IF ps = EmptyObj THEN <<>> ELSE <<<<"p">>>>)
    \/ \E k \in 1..Len(CheckedFields),
          v \in {Null, Arr(<<>>), JsTrue, Fn("nothing"), Fn("returnsNull"), Fn("returnsEmpty")} :
          construction = MkCall(Str(<<"L">>), Str(<<"e", "1">>),
                                (CheckedFields[k] :> v)
                                @@ MkCfg(Undef, Undef, Undef, TemplateP, Undef, Undef),
                                OnlyP, <<<<"p">>>>)
    \/ \E st \in {Str(<<>>), Undef, Str(<<"L">>)}, e \in {Str(<<>>), Undef} :
          construction = MkCall(st, e, MkCfg(Undef, Undef, Undef, TemplateP, Undef, Undef),
                                OnlyP, <<<<"p">>>>)

\* What a parameter may hold when the parameters resolve next to each other:
\* a text, a template of the sibling q, a function that returns dict.q.
SiblingValues == {Str(<<"1">>), Str(<<"{", "q", "}">>), Fn("dictQ")}

\* The parameter names env and stack may go by.
IdentityNames == {Undef, Str(<<"p">>)}

\* Every params object over the keys stack, env, p and q, in every key order,
\* under every naming of the two identity parameters; the bucket and the role
\* are templates of q and p, the stack name a function.
InitParams ==
    \E K \in SUBSET {StackKey, EnvKey, <<"p">>, <<"q">>} :
        \E f \in [K -> SiblingValues], keys \in KeyOrders(K),
           en \in IdentityNames, sn \in IdentityNames :
           construction = MkCall(Str(<<"L">>), Str(<<"e", "1">>),
                                 [envNameParamName |-> en, stackNameParamName |-> sn,
                                  deployBucket |-> Str(<<"b", "{", "q", "}">>),
                                  role |-> Str(<<"r", "{", "p", "}">>),
                                  cfnStackName |-> Fn("stackDashEnv")],
                                 Obj(f), keys)

\* The entries a map of tags is made of.
TagEntries ==
    {[name |-> n, value |-> v] :
        n \in {Str(<<"t">>), TemplateP, Str(<<"{", "q", "}">>)},
        v \in {Str(<<"v">>), TemplateP, Fn("dictQ")}}

\* stackTags left out, a function, or a map of at most MaxListLen tags; p
\* resolves to "L-e1" and q to "1".
TagMaps ==
    {Entries(items) :
        items \in {s \in SeqsUpTo(TagEntries, MaxListLen) :
                      \A i, j \in 1..Len(s) : s[i].name = s[j].name => i = j}}
InitTags ==
    \E tags \in {Undef, Fn("rawTags"), Fn("dictItself")} \cup TagMaps :
        construction = MkCall(Str(<<"L">>), Str(<<"e", "1">>),
                              [deployBucket |-> Str(<<"b">>), stackTags |-> tags],
                              Obj(<<"p">> :> Fn("stackDashEnv") @@ <<"q">> :> Str(<<"1">>)),
                              <<<<"p">>, <<"q">>>>)

InitDeployer ==
    /\ FactoryIdle
    /\ validation = Idle
    /\ resolution = Idle
    /\ run = Idle
    /\ document = Idle
    /\ polling = Idle
    /\ (InitFields \/ InitParams \/ InitTags)

\* new Deployer(targetStack, envName, config, params) runs to its end.
ConstructDeployer ==
    /\ construction.t = "call"
    /\ construction.outcome = Pending
    /\ construction' = [construction EXCEPT
                          !.outcome = Deployer(construction.targetStack, construction.envName,
                                               construction.cfg, construction.params,
                                               construction.keys)]
    /\ UNCHANGED <<factoryVars, validation, resolution, run, document, polling>>

NextDeployer == ConstructDeployer

SpecDeployer == InitDeployer /\ [][NextDeployer]_vars

\* ------------------------------------------------------- commands of main

\* The steps of each command that works on stacks, by their descriptions.
stepsOf(command) ==
    CASE command = "deploy" -> <<"prepare", "deploy">>
      [] command = "teardown" -> <<"teardown">>
      [] command = "describe" -> <<"get outputs">>
      [] command = "preview" -> <<"preview">>
      [] command = "find-physical-id" -> <<"find-physical-id">>
      [] OTHER -> <<"get events">>

StackCommands == {"deploy", "teardown", "describe", "preview", "find-physical-id", "get-events"}

\* deployers.reverse() in runTeardown, runPreview and runFindPhysicalId.
Reverse(s) == [i \in 1..Len(s) |-> s[Len(s) + 1 - i]]

\* [...new Set(list)]: the elements of list, each at its first occurrence.
RECURSIVE uniqueInOrder(_)
uniqueInOrder(list) ==
    IF list = <<>> THEN <<>>
    ELSE LET before == uniqueInOrder(SubSeq(list, 1, Len(list) - 1))
             last == list[Len(list)]
         IN IF \E i \in 1..Len(before) : before[i] = last THEN before
            ELSE Append(before, last)

\* getStacksToRunFromConfig(config)
getStacksToRunFromConfig(defaultStacks) ==
    LET stacks == IF Truthy(defaultStacks) THEN defaultStacks ELSE Arr(<<>>)
    IN IF IsArr(stacks) THEN Returned(stacks.items)
       ELSE IF IsStr(stacks) THEN Returned(<<stacks>>)
       ELSE Threw("ConfigError", Message("Invalid value for \"stacks\" config property.", Undef))

\* The stacks getDeployers targets: args.stacks when it has any, else the
\* defaultStacks of the config; none at all is a CallerError.
targetedStacks(stacks, defaultStacks) ==
    LET chosen == IF stacks # <<>> THEN Returned(stacks)
                  ELSE getStacksToRunFromConfig(defaultStacks)
    IN IF chosen.error # "none" THEN chosen
       ELSE IF chosen.value = <<>>
       THEN Threw("CallerError",
                  Message("No stacks specified, and non inferred from config", Undef))
       ELSE chosen

\* Mutant: every command takes the deployers in the order getDeployers
\* returns them.
deployersFor_NeverReversed(command, deployers) == deployers

\* The deployers in the order the command hands them to runStepsForDeployers.
deployersFor(command, deployers) ==
    IF command \in {"teardown", "preview", "find-physical-id"} THEN Reverse(deployers)
    ELSE deployers

StackA == Str(<<"a">>)
StackB == Str(<<"B">>)

\* What a step function resolves with: the step functions of main are async
\* functions without a return value.
stepResult(command, stepIdx, deployer) == Undef

\* Mutant: execute lets the executor's error through as it is.
execute_Rethrows(outcome) == outcome

\* Deployer.execute(command, options): the result of justRunIt, or a
\* CallerError made of the error justRunIt raised.
execute(outcome) ==
    IF outcome.error = "none" THEN outcome
    ELSE Threw("CallerError",
               Message("An error occurred running a command: ", outcome.message.detail))

\* Why a step function rejects: the executor raised an error inside
\* Deployer.execute, or the step threw an error of its own.
NoCause == [from |-> "none", class |-> "none"]
RejectionCauses ==
    {[from |-> "executor", class |-> c] : c \in {"Error", "TypeError"}}
    \cup {[from |-> "step", class |-> c] : c \in {"CallerError", "Error"}}

\* The class of the error the step function rejects with.
rejectionOf(cause) ==
    IF cause.from = "executor"
    THEN execute(Threw(cause.class, Message("", Str(<<"e">>)))).error
    ELSE cause.class

InitRun ==
    /\ FactoryIdle
    /\ validation = Idle
    /\ resolution = Idle
    /\ construction = Idle
    /\ document = Idle
    /\ polling = Idle
    /\ \E command \in StackCommands, debug \in BOOLEAN,
          stacks \in SeqsUpTo({StackA, StackB}, MaxListLen),
          defaultStacks \in {Undef, StackB, Arr(<<StackB, StackA>>), JsTrue},
          factory \in {"none", "CallerError"} :
          run = [t |-> "command", command |-> command, debug |-> debug,
                 stacks |-> IF command = "find-physical-id" THEN <<>> ELSE stacks,
                 resources |-> IF command = "find-physical-id" THEN stacks ELSE <<>>,
                 defaultStacks |-> defaultStacks, factory |-> factory,
                 pc |-> "start", deployers |-> <<>>, stepIdx |-> 1, deployerIdx |-> 1,
                 outputsByDeployer |-> <<>>, invoked |-> <<>>, error |-> "none",
                 cause |-> NoCause, exitCode |-> 0]

\* The command calls getDeployers (runFindPhysicalId first sets args.stacks to
\* the stacks its resources name) and hands the deployers to
\* runStepsForDeployers, or throws.
GetDeployers ==
    /\ run.t = "command"
    /\ run.pc = "start"
    /\ LET stacks == IF run.command = "find-physical-id" THEN uniqueInOrder(run.resources)
                     ELSE run.stacks
           targeted == targetedStacks(stacks, run.defaultStacks)
       IN run' = IF run.factory # "none"
                 THEN [run EXCEPT !.stacks = stacks, !.pc = "caught", !.error = run.factory]
                 ELSE IF targeted.error # "none"
                 THEN [run EXCEPT !.stacks = stacks, !.pc = "caught", !.error = targeted.error]
                 ELSE [run EXCEPT !.stacks = stacks, !.pc = "ready",
                                  !.deployers = deployersFor(run.command, targeted.value),
                                  !.outputsByDeployer = [i \in 1..Len(targeted.value) |-> <<>>]]
    /\ UNCHANGED <<factoryVars, validation, resolution, construction, document, polling>>

\* The promise chain reaches the next step function and calls it with the
\* deployer and the results of its earlier steps.
InvokeStep ==
    /\ run.t = "command"
    /\ run.pc = "ready"
    /\ run' = [run EXCEPT
                 !.pc = "inFlight",
                 !.invoked = Append(@, [step |-> run.stepIdx,
                                        stack |-> run.deployers[run.deployerIdx],
                                        args |-> run.outputsByDeployer[run.deployerIdx]])]
    /\ UNCHANGED <<factoryVars, validation, resolution, construction, document, polling>>

\* Mutant: a rejected step is dropped and the chain goes on.
StepRejects_GoesOn ==
    /\ run.t = "command"
    /\ run.pc = "inFlight"
    /\ \E cause \in RejectionCauses :
          LET lastDeployer == run.deployerIdx = Len(run.deployers)
              lastStep == run.stepIdx = Len(stepsOf(run.command))
          IN run' = [run EXCEPT
                       !.error = rejectionOf(cause),
                       !.cause = cause,
                       !.pc = IF lastDeployer /\ lastStep THEN "caught" ELSE "ready",
                       !.deployerIdx = IF lastDeployer THEN 1 ELSE @ + 1,
                       !.stepIdx = IF lastDeployer /\ ~lastStep THEN @ + 1 ELSE @]
    /\ UNCHANGED <<factoryVars, validation, resolution, construction, document, polling>>

\* Mutant: the chain takes every step of a deployer before the next deployer.
StepFulfils_DeployerMajor ==
    /\ run.t = "command"
    /\ run.pc = "inFlight"
    /\ LET lastDeployer == run.deployerIdx = Len(run.deployers)
           lastStep == run.stepIdx = Len(stepsOf(run.command))
       IN run' = [run EXCEPT
                    !.outputsByDeployer[run.deployerIdx] =
                        Append(@, stepResult(run.command, run.stepIdx,
                                             run.deployers[run.deployerIdx])),
                    !.pc = IF lastDeployer /\ lastStep THEN "returned" ELSE "ready",
                    !.stepIdx = IF lastStep THEN 1 ELSE @ + 1,
                    !.deployerIdx = IF lastStep /\ ~lastDeployer THEN @ + 1 ELSE @]
    /\ UNCHANGED <<factoryVars, validation, resolution, construction, document, polling>>

\* The step function in flight resolves: its result is pushed to the outputs
\* of its deployer, and the chain moves to the next deployer, then to the
\* next step, then ends.
StepFulfils ==
    /\ run.t = "command"
    /\ run.pc = "inFlight"
    /\ LET lastDeployer == run.deployerIdx = Len(run.deployers)
           lastStep == run.stepIdx = Len(stepsOf(run.command))
       IN run' = [run EXCEPT
                    !.outputsByDeployer[run.deployerIdx] =
                        Append(@, stepResult(run.command, run.stepIdx,
                                             run.deployers[run.deployerIdx])),
                    !.pc = IF lastDeployer /\ lastStep THEN "returned" ELSE "ready",
                    !.deployerIdx = IF lastDeployer THEN 1 ELSE @ + 1,
                    !.stepIdx = IF lastDeployer /\ ~lastStep THEN @ + 1 ELSE @]
    /\ UNCHANGED <<factoryVars, validation, resolution, construction, document, polling>>

\* The step function in flight rejects: no later then-callback of the chain
\* runs, and the rejection reaches the catch of main.
StepRejects ==
    /\ run.t = "command"
    /\ run.pc = "inFlight"
    /\ \E cause \in RejectionCauses :
          run' = [run EXCEPT !.pc = "caught", !.error = rejectionOf(cause),
                             !.cause = cause]
    /\ UNCHANGED <<factoryVars, validation, resolution, construction, document, polling>>

\* The catch block of main: the exit code for an error of the class.
exitCodeOf(debug, class) ==
    IF debug THEN -3
    ELSE IF InstanceOfCallerError(class) THEN 1
    ELSE -2

\* main ends: after an error it sets process.exitCode.
MainEnds ==
    /\ run.t = "command"
    /\ run.pc \in {"returned", "caught"}
    /\ run' = [run EXCEPT
                 !.pc = "exited",
                 !.exitCode = IF run.pc = "returned" THEN 0
                              ELSE exitCodeOf(run.debug, run.error)]
    /\ UNCHANGED <<factoryVars, validation, resolution, construction, document, polling>>

NextRun ==
    \/ GetDeployers
    \/ InvokeStep
    \/ StepFulfils
    \/ StepRejects
    \/ MainEnds

SpecRun == InitRun /\ [][NextRun]_vars

\* ----------------------------------------------------------- validateConfig

\* new MagicValue(type, original)
MagicValue(type, original) == [t |-> "magic", magic |-> type, original |-> original]

\* coerceFunctions(instance, property), on the value of the property.
coerceFunctions(value) ==
    IF value.t = "function" THEN MagicValue("function", value)
    ELSE IF value.t = "regexp" THEN MagicValue("regexp", value)
    ELSE value

\* The schema the validator applies to the property name of an object under
\* the schema kind: "unvisited" where the schema says nothing of the property
\* and "forbidden" where it rules the property out.
childSchema(kind, name) ==
    CASE kind = "config" ->
            (CASE name = "global" -> "argsSet"
               [] name = "deployTypes" -> "deployTypes"
               [] name = "envs" -> "envs"
               [] name = "defaultStacks" -> "defaultStacks"
               [] OTHER -> "forbidden")
      [] kind = "deployTypes" -> "deployType"
      [] kind = "envs" -> "argsSet"
      [] kind \in {"argsSet", "deployType"} ->
            (CASE name \in {"deployPrefix", "deployBucket", "inputTemplate", "outputTemplate",
                            "cfnStackName", "role"} -> "resolvable"
               [] name = "authCmd" -> "authCmd"
               [] name = "tags" -> "tags"
               [] name = "params" -> "params"
               [] name = "capabilities" -> "capabilities"
               [] name = "validEnv" /\ kind = "deployType" -> "validEnv"
               [] OTHER -> IF kind = "argsSet" THEN "forbidden" ELSE "unvisited")
      [] kind = "tags" -> "resolvable"
      [] kind = "params" -> "paramValue"
      [] OTHER -> "unvisited"

\* The schema of the items of an array under the schema kind.
itemSchema(kind) == IF kind = "validEnv" THEN "validEnv" ELSE "string"

\* A value that the validator does not walk into satisfies the schema kind.
\* Function and regular-expression values are markers by now; both markers
\* carry the marker property the is-function and is-regex schemas require,
\* and a marker is an object without enumerable properties, which is what
\* type "object" with no required property asks for.
\* The documents of the model give authCmd no array and params no number.
satisfies(value, kind) ==
    CASE kind \in {"resolvable", "authCmd", "validEnv"} -> value.t \in {"magic", "string"}
      [] kind = "paramValue" -> value.t \in {"magic", "string", "boolean"}
      [] kind \in {"string", "defaultStacks"} -> value.t = "string"
      [] kind \in {"deployTypes", "envs"} -> TRUE
      [] kind \in {"config", "argsSet", "deployType", "tags", "params"} -> value.t = "magic"
      [] OTHER -> FALSE

ObjectSchemas == {"config", "argsSet", "deployType", "deployTypes", "envs", "tags", "params"}
ArraySchemas == {"validEnv", "capabilities", "defaultStacks"}

\* validator.validate(value, schema, {preValidateProperty: coerceFunctions}):
\* the value with a marker at every function or regular expression the
\* validator came to, and the paths of the violations. Whether the validator
\* calls the hook for the items of an array is the library's choice, itemsHook.
RECURSIVE validateSchema(_, _, _, _)
RECURSIVE validateProperties(_, _, _, _, _)
RECURSIVE validateItems(_, _, _, _, _)
validateProperties(items, i, kind, path, itemsHook) ==
    IF i > Len(items) THEN [items |-> items, errors |-> <<>>]
    ELSE LET name == items[i].name
             child == childSchema(kind, name)
             here == IF child = "forbidden"
                     THEN [value |-> items[i].value, errors |-> << Append(path, name) >>]
                     ELSE IF child = "unvisited"
                     THEN [value |-> items[i].value, errors |-> <<>>]
                     ELSE validateSchema(coerceFunctions(items[i].value), child,
                                         Append(path, name), itemsHook)
             rest == validateProperties(items, i + 1, kind, path, itemsHook)
         IN [items |-> [rest.items EXCEPT ![i] = [name |-> name, value |-> here.value]],
             errors |-> here.errors \o rest.errors]

validateItems(items, i, kind, path, itemsHook) ==
    IF i > Len(items) THEN [items |-> items, errors |-> <<>>]
    ELSE LET given == IF itemsHook THEN coerceFunctions(items[i]) ELSE items[i]
             here == validateSchema(given, itemSchema(kind), Append(path, "item"), itemsHook)
             rest == validateItems(items, i + 1, kind, path, itemsHook)
         IN [items |-> [rest.items EXCEPT ![i] = here.value],
             errors |-> here.errors \o rest.errors]

validateSchema(value, kind, path, itemsHook) ==
    IF value.t = "entries" /\ kind \in ObjectSchemas
    THEN LET walked == validateProperties(value.items, 1, kind, path, itemsHook)
         IN [value |-> Entries(walked.items), errors |-> walked.errors]
    ELSE IF value.t = "array" /\ kind \in ArraySchemas
    THEN LET walked == validateItems(value.items, 1, kind, path, itemsHook)
         IN [value |-> Arr(walked.items),
             errors |-> IF kind = "validEnv" /\ walked.errors # <<>> THEN << path >>
                        ELSE walked.errors]
    ELSE [value |-> value,
          errors |-> IF satisfies(value, kind) THEN <<>> ELSE << path >>]

\* uncoerceMagicValues(config): the value left in place and whether the walk
\* threw. typeof null is "object", and Object.entries(null) is a TypeError;
\* what the walk had not come to by then stays as it was.
RECURSIVE uncoerceMagicValues(_)
RECURSIVE uncoerceEach(_, _, _)
uncoerceEach(items, i, named) ==
    IF i > Len(items) THEN [items |-> items, threw |-> FALSE]
    ELSE LET inner == uncoerceMagicValues(IF named THEN items[i].value ELSE items[i])
             put == IF named THEN [name |-> items[i].name, value |-> inner.value]
                    ELSE inner.value
         IN IF inner.threw
            THEN [items |-> [items EXCEPT ![i] = put], threw |-> TRUE]
            ELSE uncoerceEach([items EXCEPT ![i] = put], i + 1, named)

uncoerceMagicValues(cfg) ==
    IF cfg.t = "array"
    THEN LET walked == uncoerceEach(cfg.items, 1, FALSE)
         IN [value |-> Arr(walked.items), threw |-> walked.threw]
    ELSE IF cfg.t = "magic"
    THEN [value |-> cfg.original, threw |-> FALSE]
    ELSE IF cfg.t = "null"
    THEN [value |-> cfg, threw |-> TRUE]
    ELSE IF cfg.t = "entries"
    THEN LET walked == uncoerceEach(cfg.items, 1, TRUE)
         IN [value |-> Entries(walked.items), threw |-> walked.threw]
    ELSE [value |-> cfg, threw |-> FALSE]

\* The values the documents of the model hold.
RoleFn == Fn("returnsEmpty")
EnvRe == Re("prefix", <<"a">>)

LeafValues == {Str(<<"a">>), RoleFn, EnvRe, Null, JsTrue}

\* The objects of one or two properties over the names, in both orders.
ObjectsOf(names, values) ==
    {Entries(<<>>)}
    \cup {Entries(<< [name |-> n, value |-> v] >>) : n \in names, v \in values}
    \cup UNION {{Entries(<< [name |-> n, value |-> v], [name |-> m, value |-> w] >>) :
                    m \in names \ {n}, v \in values, w \in values} : n \in names}

InitSchema ==
    /\ FactoryIdle
    /\ validation = Idle
    /\ resolution = Idle
    /\ construction = Idle
    /\ run = Idle
    /\ polling = Idle
    /\ \E given \in
            {Entries(<< [name |-> "global", value |-> layer] >>) :
                layer \in ObjectsOf({"role", "params", "stackTags"},
                                    LeafValues \cup ObjectsOf({"p"}, LeafValues))}
            \cup {Entries(<< [name |-> "deployTypes",
                             value |-> Entries(<< [name |-> "dev", value |-> layer] >>)] >>) :
                layer \in ObjectsOf({"role", "validEnv", "validEnvs"},
                                    LeafValues \cup {Arr(<<v, w>>) : v, w \in LeafValues})} :
          document = [t |-> "validateConfig", pc |-> "start", original |-> given,
                      config |-> given, errors |-> <<>>, outcome |-> "none",
                      reported |-> <<>>]

\* validator.validate(config, configSchema, {preValidateProperty: ...})
Validate ==
    /\ document.t = "validateConfig"
    /\ document.pc = "start"
    /\ \E itemsHook \in BOOLEAN :
          LET validated == validateSchema(document.config, "config", <<>>, itemsHook)
          IN document' = [document EXCEPT !.pc = "validated",
                                          !.config = validated.value,
                                          !.errors = validated.errors]
    /\ UNCHANGED <<factoryVars, validation, resolution, construction, run, polling>>

\* The lines of the CallerError's message: errors.map((error, idx) =>
\* `  ${idx + 1}) ${error}`).
numbered(errors) == [idx \in 1..Len(errors) |-> [number |-> idx, error |-> errors[idx]]]

\* uncoerceMagicValues(config), and what follows it in validateConfig.
Uncoerce ==
    /\ document.t = "validateConfig"
    /\ document.pc = "validated"
    /\ LET walked == uncoerceMagicValues(document.config)
           outcome == IF walked.threw THEN "TypeError"
                      ELSE IF document.errors # <<>> THEN "CallerError"
                      ELSE "returned"
       IN document' = [document EXCEPT
                         !.pc = "done",
                         !.config = walked.value,
                         !.outcome = outcome,
                         !.reported = IF outcome = "CallerError"
                                      THEN numbered(document.errors) ELSE <<>>]
    /\ UNCHANGED <<factoryVars, validation, resolution, construction, run, polling>>

NextSchema ==
    \/ Validate
    \/ Uncoerce

SpecSchema == InitSchema /\ [][NextSchema]_vars

\* ------------------------------------------------- the teardown step alone

\* The describe-stacks calls one waitForStatus may make in the model.
MaxChecks == 3

StackStatuses == {"DELETE_IN_PROGRESS", "DELETE_COMPLETE", "DELETE_FAILED"}

\* What a describe-stacks command gives: the executor fails, or its output
\* does not parse, or it names a stack and its status.
DescribeOutcomes ==
    {[t |-> "fails"], [t |-> "garbled"]}
    \cup {[t |-> "stack", status |-> status] : status \in StackStatuses}

\* The checkCompleted of waitForDeleted: status => status !== "DELETE_IN_PROGRESS"
deletionCompleted(status) == status # "DELETE_IN_PROGRESS"

\* What justRunIt gives for a command: in a dry run the command is not run
\* and cannot fail.
justRunIt(dryRun, fails) ==
    IF fails /\ ~dryRun THEN Threw("Error", Message("", Str(<<"e">>)))
    ELSE Returned(Undef)

AuthenticationCommands == {Null, Str(<<"a">>), Arr(<< Str(<<"a">>) >>), Fn("authenticates")}

InitWait ==
    /\ FactoryIdle
    /\ validation = Idle
    /\ resolution = Idle
    /\ construction = Idle
    /\ run = Idle
    /\ document = Idle
    /\ \E stack \in {StackA, StackB}, dryRun \in BOOLEAN, debug \in BOOLEAN,
          authenticationCommand \in AuthenticationCommands :
          polling = [t |-> "teardown", stack |-> stack, dryRun |-> dryRun, debug |-> debug,
                     authenticationCommand |-> authenticationCommand,
                     pc |-> "authenticate", checkCount |-> 0, checks |-> 0, timers |-> 0,
                     resolves |-> 0, rejects |-> 0, value |-> Undef, error |-> "none",
                     exitCode |-> 0]

\* The step function has thrown, or an awaited call has rejected.
stepRejects(p, class) == [p EXCEPT !.pc = "stepRejected", !.error = class]

\* await deployer.authenticate(): nothing without an authentication command;
\* a function is called and may reject; a command is executed.
Authenticate ==
    /\ polling.t = "teardown"
    /\ polling.pc = "authenticate"
    /\ \E fails \in BOOLEAN :
          LET cmd == polling.authenticationCommand
              ran == execute(justRunIt(polling.dryRun, fails))
          IN polling' =
                IF ~Truthy(cmd) THEN [polling EXCEPT !.pc = "teardown"]
                ELSE IF cmd.t = "function"
                THEN IF fails THEN stepRejects(polling, "Error")
                     ELSE [polling EXCEPT !.pc = "teardown"]
                ELSE IF ran.error # "none" THEN stepRejects(polling, ran.error)
                ELSE [polling EXCEPT !.pc = "teardown"]
    /\ UNCHANGED <<factoryVars, validation, resolution, construction, run, document>>

\* await deployer.teardown(): the delete-stack command is executed.
Teardown ==
    /\ polling.t = "teardown"
    /\ polling.pc = "teardown"
    /\ \E fails \in BOOLEAN :
          LET ran == execute(justRunIt(polling.dryRun, fails))
          IN polling' = IF ran.error # "none" THEN stepRejects(polling, ran.error)
                        ELSE [polling EXCEPT !.pc = "checkStatus"]
    /\ UNCHANGED <<factoryVars, validation, resolution, construction, run, document>>

\* checkStatus of waitForStatus: describe-stacks is executed; in a dry run
\* the promise is resolved with nothing; otherwise the output is parsed, the
\* promise is resolved with the stack when checkCompleted holds, and the next
\* check is scheduled when it does not; whatever is thrown rejects the promise.
CheckStatus ==
    /\ polling.t = "teardown"
    /\ polling.pc = "checkStatus"
    /\ polling.checks < MaxChecks
    /\ \E described \in DescribeOutcomes :
          LET ran == execute(justRunIt(polling.dryRun, described.t = "fails"))
              checked == [polling EXCEPT !.checks = @ + 1]
          IN polling' =
                IF ran.error # "none"
                THEN [checked EXCEPT !.pc = "settled", !.rejects = @ + 1,
                                     !.error = ran.error]
                ELSE IF polling.dryRun
                THEN [checked EXCEPT !.pc = "settled", !.resolves = @ + 1, !.value = Undef]
                ELSE IF described.t = "garbled"
                THEN [checked EXCEPT !.pc = "settled", !.rejects = @ + 1,
                                     !.error = "SyntaxError"]
                ELSE IF deletionCompleted(described.status)
                THEN [checked EXCEPT !.pc = "settled", !.resolves = @ + 1,
                                     !.checkCount = @ + 1,
                                     !.value = [t |-> "stack", status |-> described.status]]
                ELSE [checked EXCEPT !.pc = "sleeping", !.timers = @ + 1,
                                     !.checkCount = @ + 1]
    /\ UNCHANGED <<factoryVars, validation, resolution, construction, run, document>>

\* setTimeout(checkStatus, 5000) fires.
TimerFires ==
    /\ polling.t = "teardown"
    /\ polling.pc = "sleeping"
    /\ polling' = [polling EXCEPT !.pc = "checkStatus"]
    /\ UNCHANGED <<factoryVars, validation, resolution, construction, run, document>>

\* waitForDeleted goes on after waitForStatus has settled: a rejection is
\* thrown on; stackData.DeletionTime is read, a TypeError when stackData is
\* undefined.
WaitForDeletedReturns ==
    /\ polling.t = "teardown"
    /\ polling.pc = "settled"
    /\ polling' = IF polling.rejects > 0 THEN stepRejects(polling, polling.error)
                  ELSE IF polling.value = Undef THEN stepRejects(polling, "TypeError")
                  ELSE [polling EXCEPT !.pc = "stepFulfilled"]
    /\ UNCHANGED <<factoryVars, validation, resolution, construction, run, document>>

\* main ends after the step: its catch sets the exit code.
TeardownEnds ==
    /\ polling.t = "teardown"
    /\ polling.pc \in {"stepFulfilled", "stepRejected"}
    /\ polling' = [polling EXCEPT
                     !.pc = "exited",
                     !.exitCode = IF polling.pc = "stepFulfilled" THEN 0
                                  ELSE exitCodeOf(polling.debug, polling.error)]
    /\ UNCHANGED <<factoryVars, validation, resolution, construction, run, document>>

NextWait ==
    \/ Authenticate
    \/ Teardown
    \/ CheckStatus
    \/ TimerFires
    \/ WaitForDeletedReturns
    \/ TeardownEnds

SpecWait == InitWait /\ [][NextWait]_vars

\* ------------------------------------------------------------ observations

Probed(what) == \E i \in 1..Len(probes) : probes[i] = what

\* getDeployTypeAndEnv has returned or thrown.
Resolved == pc \in {"validate", "merge", "done", "failed"}

\* getDeployTypeAndEnv threw (the two logNamedValue calls were never made).
ResolutionFailed == pc = "failed" /\ logged = <<>>

EnvGiven == Truthy(Get(args, "env"))
\* The environment variable was read and holds a non-empty value.
EnvVarSet == IsStr(procEnv) /\ Truthy(procEnv)
DeployTypeGiven == Truthy(Get(args, "deployType"))

\* The strategy that produced the outcome, read off the provenance labels and
\* the error message: 0 while none has.
AppliedStrategy ==
    CASE envNameFromWhere = "from --env option" /\ deployTypeFromWhere = "from DEPLOY-TYPE arg" -> 1
      [] envNameFromWhere = "from --env option" /\ deployTypeFromWhere = "from environment name" -> 2
      [] envNameFromWhere = "from environment variable" -> 3
      [] ResolutionFailed
         /\ error.message.text = "Environment name does not match given deploy type: " -> 3
      [] envNameFromWhere = "from GIT branch name" -> 4
      [] ResolutionFailed
         /\ error.message.text = "Git branch name could not be determined, and not set: " -> 4
      [] envNameFromWhere = "only one valid env name for deploy type" -> 5
      [] ResolutionFailed -> 5
      [] OTHER -> 0

\* The first strategy whose precondition holds, from the inputs alone.  The
\* environment variable and the branch deploy types count only once read.
FirstApplicable ==
    IF EnvGiven /\ DeployTypeGiven THEN 1
    ELSE IF EnvGiven THEN 2
    ELSE IF EnvVarSet THEN 3
    ELSE IF DeployTypeGiven /\ IsBranchDeployType(Get(args, "deployType")) THEN 4
    ELSE 5

\* C2: the five strategies are tried in the fixed order explicit pair, explicit
\* env, environment variable, branch lookup, single valid environment, and the
\* first one whose precondition holds alone determines the outcome: with env
\* given neither the environment variable nor the branch lookup is consulted,
\* and with the environment variable set the branch lookup is never invoked
\* and validEnvs never picks the environment name.
C2_FirstApplicableStrategyDecides ==
    /\ probes \in {<<>>, <<"process.env">>, <<"process.env", "getGitBranch">>,
                   <<"process.env", "validEnvs">>}
    /\ EnvGiven => probes = <<>> /\ procEnv = Unread /\ gitBranch = Unread
    /\ EnvVarSet =>
          /\ ~Probed("getGitBranch") /\ ~Probed("validEnvs") /\ gitBranch = Unread
          /\ envNameFromWhere \notin {"from GIT branch name",
                                      "only one valid env name for deploy type"}
    /\ Resolved => AppliedStrategy = FirstApplicable

\* The environment variable is set and the deploy type given is a branch
\* deploy type with one literal valid environment: strategy 3 decided.
C2_Witness ==
    /\ pc = "done"
    /\ ~EnvGiven
    /\ EnvVarSet
    /\ DeployTypeGiven /\ IsBranchDeployType(Get(args, "deployType"))
    /\ Get(deployTypeConfigOf(config, Get(args, "deployType")), "validEnvs") = Str(<<"a", "-">>)
    /\ AppliedStrategy = 3

\* ------------------------------------------- reference string definitions

\* The position of the first c in s, 0 when s holds none.
FirstIndexOf(s, c) ==
    IF \E i \in 1..Len(s) : s[i] = c
    THEN CHOOSE i \in 1..Len(s) : s[i] = c /\ \A j \in 1..(i - 1) : s[j] # c
    ELSE 0

\* s up to, and without, its first c: the whole of s when it holds none.
PrefixBefore(s, c) ==
    IF FirstIndexOf(s, c) = 0 THEN s ELSE SubSeq(s, 1, FirstIndexOf(s, c) - 1)

\* s with every c replaced by d, and with only its first c replaced by d.
ReplaceEvery(s, c, d) == [i \in 1..Len(s) |-> IF s[i] = c THEN d ELSE s[i]]
ReplaceOnlyFirst(s, c, d) ==
    [i \in 1..Len(s) |-> IF i = FirstIndexOf(s, c) THEN d ELSE s[i]]

\* Whether env satisfies a validEnvs validator, stated without an evaluation
\* order: a predicate that throws satisfies nothing.
PredicateHolds(fn, e) ==
    \/ fn.id \in {"true", "truthyString"}
    \/ fn.id = "hasDash" /\ \E i \in 1..Len(ToStringJs(e)) : ToStringJs(e)[i] = "-"

RECURSIVE Matches(_, _)
Matches(v, e) ==
    CASE v.t = "string" -> IsStr(e) /\ e.s = v.s
      [] v.t = "regexp" -> ReTest(v, e)
      [] v.t = "function" -> PredicateHolds(v, e)
      [] v.t = "array" -> \E i \in 1..Len(v.items) : Matches(v.items[i], e)
      [] OTHER -> FALSE

\* The two logNamedValue calls were made: getDeployTypeAndEnv returned.
ValidationRan == logged # <<>>

\* ------------------------------------------------------------------ claims

\* C3: with both the deploy type and the environment name given by the
\* caller, the environment name is not validated against validEnvs:
\* getDeployerFactory does not fail for a declared deploy type, whatever its
\* validEnvs says of the environment name.
C3_ExplicitPairIsNotValidated ==
    (/\ EnvGiven /\ DeployTypeGiven
     /\ Truthy(Get(config, "deployTypes"))
     /\ HasOwn(Get(config, "deployTypes"), PropertyKey(Get(args, "deployType"))))
    => pc # "failed"

\* C4: with env given and no deploy type, the environment name is env as
\* given and the deploy type is env up to its first "-" (all of env when it
\* has none).
C4_ExplicitEnvOnly ==
    (Resolved /\ EnvGiven /\ ~DeployTypeGiven) =>
        /\ ~ResolutionFailed
        /\ env = Get(args, "env")
        /\ deployType = Str(PrefixBefore(Get(args, "env").s, "-"))

\* env "a-B" gives the deploy type "a"; here with the two-character "a-".
C4_Witness ==
    /\ pc = "done"
    /\ ~DeployTypeGiven
    /\ Get(args, "env") = Str(<<"a", "-">>)
    /\ deployType = Str(A)
    /\ env = Str(<<"a", "-">>)

\* C5: with env absent and the environment variable set, its value is split
\* on the separator: a given deploy type that differs from the first segment
\* fails with a CallerError and nothing is returned; otherwise the deploy type
\* is the first segment and the environment name is the value with every
\* separator replaced by "-".
C5_EnvironmentVariablePair ==
    (~EnvGiven /\ EnvVarSet) =>
        LET sep == Get(args, "envNameSeparator").s[1]
            first == Str(PrefixBefore(procEnv.s, sep))
            given == Get(args, "deployType")
        IN IF DeployTypeGiven /\ given # first
           THEN /\ ResolutionFailed
                /\ error.error = "CallerError"
                /\ error.message.text = "Environment name does not match given deploy type: "
                /\ deployType = Undef /\ env = Undef
           ELSE /\ ~ResolutionFailed
                /\ deployType = first
                /\ env = Str(ReplaceEvery(procEnv.s, sep, "-"))

\* The value "a/" with separator "/" and deploy type "a" given: ("a", "a-").
C5_Witness ==
    /\ pc = "done"
    /\ ~EnvGiven
    /\ Get(args, "deployType") = Str(A)
    /\ Get(args, "envNameSeparator") = Str(<<"/">>)
    /\ procEnv = Str(<<"a", "/">>)
    /\ deployType = Str(A)
    /\ env = Str(<<"a", "-">>)

C7_SingleValidEnvIsALiteralString ==
    (AppliedStrategy = 5 /\ ~ResolutionFailed) =>
        LET validEnvs == Get(deployTypeConfigOf(config, Get(args, "deployType")), "validEnvs")
        IN /\ IsStr(env)
           /\ validEnvs \in {env, Arr(<<env>>)}

ConfiguredLayers ==
    <<IF Truthy(Get(config, "global")) THEN Get(config, "global") ELSE EmptyObj,
      IF Truthy(Get(config, "deployTypes"))
         /\ HasOwn(Get(config, "deployTypes"), PropertyKey(deployType))
      THEN Get(Get(config, "deployTypes"), PropertyKey(deployType)) ELSE EmptyObj,
      IF Truthy(Get(config, "envs")) /\ HasOwn(Get(config, "envs"), PropertyKey(env))
      THEN Get(Get(config, "envs"), PropertyKey(env)) ELSE EmptyObj,
      args>>

\* Whether layer i defines the top-level key k, or the key n of its map m.
Defines(i, k) == Get(ConfiguredLayers[i], k) # Undef
DefinesNested(i, m, n) ==
    /\ IsObj(Get(ConfiguredLayers[i], m))
    /\ Get(Get(ConfiguredLayers[i], m), n) # Undef

\* The highest-precedence layer among those of the set S (not empty).
Highest(S) == CHOOSE i \in S : \A j \in S : j <= i

ScalarKeys == {"role", "deployType", "envNameSeparator"}
NestedKeys == [params |-> {"p1", "p2"}, stackTags |-> {"t1", "t2"}]

\* C1: for every key, top-level or inside the nested maps params and
\* stackTags, the effective layer holds the value of the highest-precedence
\* layer that defines it (global < deploy type < environment < args), a key
\* only a lower layer defines is kept, and the env field of the effective
\* layer is the resolved environment name whatever the layers say.
C1_HighestPrecedenceLayerWins ==
    pc = "done" =>
        /\ \A k \in ScalarKeys :
            LET S == {i \in 1..4 : Defines(i, k)}
            IN Get(finalArgs, k) = IF S = {} THEN Undef
                                   ELSE Get(ConfiguredLayers[Highest(S)], k)
        /\ \A m \in DOMAIN NestedKeys : \A n \in NestedKeys[m] :
            LET S == {i \in 1..4 : DefinesNested(i, m, n)}
            IN IF S = {} THEN ~IsObj(Get(finalArgs, m)) \/ Get(Get(finalArgs, m), n) = Undef
               ELSE Get(Get(finalArgs, m), n) = Get(Get(ConfiguredLayers[Highest(S)], m), n)
        /\ Get(finalArgs, "env") = env

\* All four layers define role, global alone defines params.p2 and tags, the
\* deploy type layer overrides params.p1, and global gives an env of its own.
C1_Witness ==
    /\ pc = "done"
    /\ \A i \in 1..4 : Defines(i, "role")
    /\ {i \in 1..4 : DefinesNested(i, "params", "p1")} = {1, 2}
    /\ {i \in 1..4 : DefinesNested(i, "params", "p2")} = {1}
    /\ Get(ConfiguredLayers[1], "env") = Str(<<"g">>)
    /\ Get(finalArgs, "role") = Str(<<"o">>)
    /\ Get(Get(finalArgs, "params"), "p1") = Str(<<"d">>)
    /\ Get(Get(finalArgs, "params"), "p2") = Str(<<"g">>)
    /\ Get(finalArgs, "env") = Str(<<"a", "-">>)

\* The validators of v that are no list, at any depth.
RECURSIVE LeavesOf(_)
LeavesOf(v) ==
    IF v.t = "array" THEN UNION {LeavesOf(v.items[i]) : i \in 1..Len(v.items)}
    ELSE {v}

ThrowingLeaves(v) == {l \in LeavesOf(v) : l.t = "function" /\ l.id \in {"throwsA", "throwsB"}}

\* C8: a string validator matches iff env equals it, a regular expression iff
\* it tests true on env, a predicate by the truthiness of its result, a list
\* iff some element matches, recursively (an empty list matches nothing); an
\* exception thrown by a predicate, at any depth, is reported as a
\* ConfigError carrying the original message, neither as a match nor as a
\* non-match.
C8_ValidatorSemantics ==
    (validation.t = "call" /\ validation.outcome # Pending) =>
        LET v == validation.validator
            e == validation.env
            out == validation.outcome
        IN /\ out.error = "none" => (Truthy(out.value) <=> Matches(v, e))
           /\ out.error # "none" =>
                /\ out.error = "ConfigError"
                /\ out.message.text = "An error occurred running the deploy-type validEnvs function: "
                /\ \E l \in ThrowingLeaves(v) :
                      out.message.detail = Str(CallPredicate(l, e).message)
           /\ (ThrowingLeaves(v) # {} /\ ~Matches(v, e)) => out.error = "ConfigError"

\* The list ["a", [throwing predicate]] on the name "a-": no element matches
\* and the nested predicate throws, which is reported with its message "B".
C8_Witness ==
    /\ validation.t = "call"
    /\ validation.validator = Arr(<<Str(A), Arr(<<Fn("throwsB")>>)>>)
    /\ validation.env = Str(<<"a", "-">>)
    /\ validation.outcome # Pending
    /\ validation.outcome.error = "ConfigError"
    /\ validation.outcome.message.detail = Str(<<"B">>)

\* The dictionary a value is resolved against: params, with stack and env
\* added where params has no key of that name.
ExpectedDict(r) ==
    Obj([k \in DOMAIN r.params.o \cup {StackKey, EnvKey} |->
            IF HasOwn(r.params, k) THEN r.params.o[k]
            ELSE IF k = StackKey THEN r.targetStack ELSE r.envName])

\* C10: resolveValue calls a function value exactly once, with (stack, env,
\* dict), and returns what it returns with no template pass; it formats a
\* string value against dict; it returns any other value unchanged.  dict is
\* a copy of params with stack and env added only where params has no such
\* key, and params is not modified.
C10_ResolveValue ==
    (resolution.t = "call" /\ resolution.outcome # Pending) =>
        LET r == resolution
            out == resolution.outcome
        IN /\ out.params = r.params
           /\ r.value.t = "function" =>
                /\ out.calls = <<<<r.targetStack, r.envName, ExpectedDict(r)>>>>
                /\ out.result = CallResolvable(r.value, r.targetStack, r.envName,
                                               ExpectedDict(r)).value
           /\ r.value.t = "string" =>
                /\ out.calls = <<>>
                /\ out.result = format(r.value, ExpectedDict(r))
           /\ r.value.t \notin {"function", "string"} =>
                /\ out.calls = <<>>
                /\ out.result = r.value

\* A function that returns dict.stack is called once and returns the stack
\* entry of params, not the stack name.
C10_Witness ==
    /\ resolution.t = "call"
    /\ resolution.value = Fn("dictStack")
    /\ HasOwn(resolution.params, StackKey)
    /\ resolution.params.o[StackKey] = Str(<<"1">>)
    /\ ~HasOwn(resolution.params, EnvKey)
    /\ resolution.outcome # Pending
    /\ Len(resolution.outcome.calls) = 1
    /\ Get(resolution.outcome.calls[1][3], EnvKey) = resolution.envName
    /\ resolution.outcome.result = Str(<<"1">>)

\* ------------------------------------------------ reference template reading

\* The placeholders of str, as pairs <<i, j>>: a "{" at i, a "}" at j, and
\* one or more name characters and nothing else between them.
PlaceholdersOf(str) ==
    {ij \in (1..Len(str)) \X (1..Len(str)) :
        /\ str[ij[1]] = "{" /\ str[ij[2]] = "}" /\ ij[2] > ij[1] + 1
        /\ \A k \in (ij[1] + 1)..(ij[2] - 1) : str[k] \in NameChars}

\* The placeholder <<i, j>> of str stands inside a doubled brace pair.
Doubled(str, ij) ==
    /\ ij[1] > 1 /\ str[ij[1] - 1] = "{"
    /\ ij[2] < Len(str) /\ str[ij[2] + 1] = "}"

NameOf(str, ij) == SubSeq(str, ij[1] + 1, ij[2] - 1)

\* What position k of the template str contributes to the text read in one
\* pass against dict: a placeholder contributes, at its "{", its bare name
\* when doubled, the dict value of its name otherwise, and nothing when dict
\* has no such key; a character outside every placeholder contributes itself.
PieceAt(str, k, dict) ==
    IF \E ij \in PlaceholdersOf(str) : ij[1] = k
    THEN LET ij == CHOOSE ij \in PlaceholdersOf(str) : ij[1] = k
         IN IF Doubled(str, ij) THEN NameOf(str, ij)
            ELSE IF HasOwn(dict, NameOf(str, ij)) THEN Get(dict, NameOf(str, ij)).s
            ELSE <<>>
    ELSE IF \E ij \in PlaceholdersOf(str) : ij[1] < k /\ k <= ij[2] THEN <<>>
    ELSE <<str[k]>>

RECURSIVE PiecesUpTo(_, _, _)
PiecesUpTo(str, k, dict) ==
    IF k = 0 THEN <<>> ELSE PiecesUpTo(str, k - 1, dict) \o PieceAt(str, k, dict)

\* Every placeholder of str outside a doubled pair names a string of dict.
AllNamesAreStrings(str, dict) ==
    \A ij \in PlaceholdersOf(str) :
        ~Doubled(str, ij) => HasOwn(dict, NameOf(str, ij)) /\ IsStr(Get(dict, NameOf(str, ij)))

\* C11: template resolution is a single pass: each {name} placeholder is
\* replaced by the dict value of name taken verbatim (a substituted value
\* that itself contains placeholders is not resolved again), and a doubled
\* brace pair decodes to a literal single brace pair with no substitution
\* inside it: "{stack}-{env}" with stack "L" and env "e1" yields "L-e1", and
\* "{{env}}" yields "{env}".
C11_SinglePassTemplates ==
    (resolution.t = "call" /\ resolution.outcome # Pending /\ IsStr(resolution.value)) =>
        LET r == resolution
            dict == ExpectedDict(r)
        IN /\ AllNamesAreStrings(r.value.s, dict) =>
                r.outcome.result = Str(PiecesUpTo(r.value.s, Len(r.value.s), dict))
           /\ r.value = Str(<<"{", "{">> \o EnvKey \o <<"}", "}">>) =>
                r.outcome.result = Str(<<"{">> \o EnvKey \o <<"}">>)
           /\ (/\ r.value = Str(<<"{">> \o StackKey \o <<"}", "-", "{">> \o EnvKey \o <<"}">>)
               /\ r.params = EmptyObj /\ r.envName = Str(<<"e", "1">>)) =>
                r.outcome.result = Str(<<"L", "-", "e", "1">>)

\* The template {p} is resolved where p holds the text "{q}" and q holds "1":
\* the result is the text "{q}", not "1".
C11_Witness ==
    /\ resolution.t = "call"
    /\ resolution.outcome # Pending
    /\ resolution.value = Str(<<"{", "p", "}">>)
    /\ Get(resolution.params, <<"p">>) = Str(<<"{", "q", "}">>)
    /\ Get(resolution.params, <<"q">>) = Str(<<"1">>)
    /\ resolution.outcome.result = Str(<<"{", "q", "}">>)

\* Some placeholder of str outside a doubled pair names no key of dict.
SomeNameIsMissing(str, dict) ==
    \E ij \in PlaceholdersOf(str) : ~Doubled(str, ij) /\ ~HasOwn(dict, NameOf(str, ij))

\* Every placeholder of str outside a doubled pair names a string of dict or
\* no key of dict at all.
NamesAreStringsOrMissing(str, dict) ==
    \A ij \in PlaceholdersOf(str) :
        (~Doubled(str, ij) /\ HasOwn(dict, NameOf(str, ij))) => IsStr(Get(dict, NameOf(str, ij)))

\* C12 as stated: resolving a template with a placeholder whose name is no
\* key of the resolution dict never yields a resolved string.
C12_MissingKeyFails ==
    (/\ resolution.t = "call" /\ resolution.outcome # Pending /\ IsStr(resolution.value)
     /\ SomeNameIsMissing(resolution.value.s, ExpectedDict(resolution))) =>
        ~IsStr(resolution.outcome.result)

\* C12 as amended: resolving a template with a placeholder whose name is no
\* key of the resolution dict returns normally, and the resolved string holds
\* nothing in the place of that placeholder.
C12_MissingKeyReadsAsEmpty ==
    (/\ resolution.t = "call" /\ resolution.outcome # Pending /\ IsStr(resolution.value)
     /\ SomeNameIsMissing(resolution.value.s, ExpectedDict(resolution))
     /\ NamesAreStringsOrMissing(resolution.value.s, ExpectedDict(resolution))) =>
        LET r == resolution
        IN r.outcome.result = Str(PiecesUpTo(r.value.s, Len(r.value.s), ExpectedDict(r)))

\* The template {q}{env is resolved against params without q: the result is
\* the text "{env".
C12_Witness ==
    /\ resolution.t = "call"
    /\ resolution.outcome # Pending
    /\ resolution.value = Str(<<"{", "q", "}", "{">> \o EnvKey)
    /\ ~HasOwn(resolution.params, <<"q">>)
    /\ resolution.outcome.result = Str(<<"{">> \o EnvKey)

\* ------------------------------------------------ reference deployer reading

\* The constructor was called with a stack and an environment name and ended.
Built(c) == c.t = "call" /\ c.outcome # Pending /\ Truthy(c.targetStack) /\ Truthy(c.envName)

EnvParamName(c) == IF Get(c.cfg, "envNameParamName") = Undef THEN EnvKey
                   ELSE Get(c.cfg, "envNameParamName").s
StackParamName(c) == IF Get(c.cfg, "stackNameParamName") = Undef THEN StackKey
                     ELSE Get(c.cfg, "stackNameParamName").s

\* What the parameter k of the call c resolves to on its own: against the
\* stack name and the environment name and nothing else.
ResolvedAlone(c, k) ==
    LET v == c.params.o[k]
        identity == Obj(StackKey :> c.targetStack @@ EnvKey :> c.envName)
    IN IF v.t = "function" THEN CallResolvable(v, c.targetStack, c.envName, identity).value
       ELSE IF IsStr(v) THEN Str(PiecesUpTo(v.s, Len(v.s), identity))
       ELSE v

\* The parameter map the call c is to end with: the caller's parameters, each
\* resolved on its own, and the two identity entries where the caller has no
\* parameter of that name (the stack name under a name the two share).
ExpectedParameters(c) ==
    Obj([k \in DOMAIN c.params.o \cup {EnvParamName(c), StackParamName(c)} |->
            IF k \in DOMAIN c.params.o THEN ResolvedAlone(c, k)
            ELSE IF k = StackParamName(c) THEN c.targetStack
            ELSE c.envName])

\* What the value v resolves to against the complete parameter map of the
\* call c.
ExpectedValue(c, v) ==
    LET dict == Obj([k \in DOMAIN ExpectedParameters(c).o \cup {StackKey, EnvKey} |->
                        IF HasOwn(ExpectedParameters(c), k) THEN ExpectedParameters(c).o[k]
                        ELSE IF k = StackKey THEN c.targetStack ELSE c.envName])
    IN IF v.t = "function" THEN CallResolvable(v, c.targetStack, c.envName, dict).value
       ELSE IF IsStr(v) THEN format(v, dict)
       ELSE v

\* What the field named name of the call c resolves to.
ExpectedField(c, name) ==
    ExpectedValue(c, IF Get(c.cfg, name) = Undef THEN defaultOf(name) ELSE Get(c.cfg, name))

IsEmptyOrNull(v) == v = Null \/ v = Undef \/ v = Str(<<>>) \/ v = Arr(<<>>)

SixFields == {"inputTemplate", "outputTemplate", "cfnStackName", "deployBucket",
              "deployBucketPrefix", "role"}

\* C13: constructing a Deployer fails with a CallerError that names the
\* offending field whenever one of inputTemplate, outputTemplate,
\* cfnStackName, deployBucket, deployBucketPrefix and role resolves to an
\* empty string, to null or to an absent value, and succeeds when all six
\* resolve to non-empty values; no constructed Deployer holds an empty or
\* null value in any of the six.
C13_EmptyFieldsAreCallerErrors ==
    Built(construction) =>
        LET c == construction
            empty == {f \in SixFields : IsEmptyOrNull(ExpectedField(c, f))}
        IN /\ empty # {} =>
                /\ c.outcome.error = "CallerError"
                /\ c.outcome.message.detail.name \in empty
           /\ empty = {} => c.outcome.error = "none"
           /\ c.outcome.error = "none" =>
                \A f \in SixFields : ~IsEmptyOrNull(c.outcome.fields[f])

\* The constructor of the call c ended with a deployer.
Succeeded(c) == Built(c) /\ c.outcome.error = "none"

CallsAt(c, S) == {i \in 1..Len(c.outcome.calls) : c.outcome.calls[i].site \in S}

\* C15: stack tags are resolved after the parameters: a stackTags function
\* is called exactly once, with (stackName, envName, the resolved parameter
\* map), and what it returns is the tag map, no key or value of it resolved
\* further; of a stackTags map every tag name and every tag value goes
\* through resolveValue with the resolved parameter map as context.
C15_StackTags ==
    Succeeded(construction) =>
        LET c == construction
            tags == IF Get(c.cfg, "stackTags") = Undef THEN Entries(<<>>)
                    ELSE Get(c.cfg, "stackTags")
            out == c.outcome.stackTags
        IN /\ \A i \in CallsAt(c, {"params"}) :
                \A j \in CallsAt(c, {"stackTags", "tagName", "tagValue"}) : i < j
           /\ tags.t = "function" =>
                /\ Cardinality(CallsAt(c, {"stackTags"})) = 1
                /\ CallsAt(c, {"tagName", "tagValue"}) = {}
                /\ \A i \in CallsAt(c, {"stackTags"}) :
                      /\ c.outcome.calls[i].fn = tags
                      /\ c.outcome.calls[i].third = ExpectedParameters(c)
                /\ tags = Fn("rawTags") => out = Obj(<<"{", "p", "}">> :> TemplateP)
                /\ tags = Fn("dictItself") => out = ExpectedParameters(c)
           /\ tags.t = "entries" =>
                /\ CallsAt(c, {"stackTags"}) = {}
                /\ DOMAIN out.o = {ExpectedValue(c, tags.items[i].name).s :
                                      i \in 1..Len(tags.items)}
                /\ \A i \in 1..Len(tags.items) :
                      (\A j \in (i + 1)..Len(tags.items) :
                          ExpectedValue(c, tags.items[j].name) # ExpectedValue(c, tags.items[i].name))
                      => out.o[ExpectedValue(c, tags.items[i].name).s]
                            = ExpectedValue(c, tags.items[i].value)

\* The map of the one tag {q}: {p} is resolved where the parameter p resolved
\* to "L-e1" and q to "1": the tag 1 holds L-e1.
C15_Witness ==
    /\ Succeeded(construction)
    /\ Get(construction.cfg, "stackTags")
          = Entries(<<[name |-> Str(<<"{", "q", "}">>), value |-> TemplateP]>>)
    /\ construction.outcome.stackTags = Obj(<<"1">> :> Str(<<"L", "-", "e", "1">>))

UnresolvedDict(c) ==
    Obj([k \in DOMAIN c.params.o \cup {StackKey, EnvKey} |->
            IF HasOwn(c.params, k) THEN c.params.o[k]
            ELSE IF k = StackKey THEN c.targetStack ELSE c.envName])

\* C17: a parameter that is a function or a string template is resolved
\* against the dictionary of every configured parameter of the stack mapped
\* to its raw unresolved value (a function-valued sibling is there as the
\* function itself, a template {q} sees the sibling q), plus stack and env
\* unless parameters of those names overwrite them.
C17_ParametersSeeUnresolvedSiblings ==
    Built(construction) =>
        LET c == construction
        IN /\ \A i \in CallsAt(c, {"params"}) :
                c.outcome.calls[i].third = UnresolvedDict(c)
           /\ c.outcome.error = "none" =>
                \A k \in DOMAIN c.params.o :
                   (IsStr(c.params.o[k]) /\ AllNamesAreStrings(c.params.o[k].s, UnresolvedDict(c)))
                   => c.outcome.parameters.o[k]
                         = Str(PiecesUpTo(c.params.o[k].s, Len(c.params.o[k].s), UnresolvedDict(c)))

\* ------------------------------------------------------ reference run reading

\* The stacks a command was given, in the order given: the --stack list (for
\* find-physical-id the stacks its resources name), or defaultStacks.
InputStacks(r) ==
    IF r.stacks # <<>> THEN r.stacks
    ELSE IF IsArr(r.defaultStacks) THEN r.defaultStacks.items
    ELSE <<r.defaultStacks>>

\* runStepsForDeployers was called.
StepsStarted(r) == r.t = "command" /\ r.deployers # <<>>

\* The position, among the stacks, of the n-th call of a step function.
TurnOf(r, n) == ((n - 1) % Len(r.deployers)) + 1

\* C18 as stated: for every command the targeted stacks are processed in the
\* order given by the --stack list, or by defaultStacks: within each step the
\* step function runs on the stacks in that input order.
C18_StacksInInputOrder ==
    StepsStarted(run) =>
        \A n \in 1..Len(run.invoked) :
            run.invoked[n].stack = InputStacks(run)[TurnOf(run, n)]

\* C18 as amended: deploy, describe and get-events process the stacks in the
\* order given; teardown, preview and find-physical-id process them in the
\* reverse of that order; within each step there is no other reordering.
C18_StacksInCommandOrder ==
    StepsStarted(run) =>
        \A n \in 1..Len(run.invoked) :
            run.invoked[n].stack =
                IF run.command \in {"deploy", "describe", "get-events"}
                THEN InputStacks(run)[TurnOf(run, n)]
                ELSE InputStacks(run)[Len(run.deployers) + 1 - TurnOf(run, n)]

\* teardown --stack a --stack B has run to its end: B was torn down first.
C18_Witness ==
    /\ run.t = "command"
    /\ run.command = "teardown"
    /\ run.stacks = <<StackA, StackB>>
    /\ run.pc = "exited"
    /\ run.error = "none"
    /\ Len(run.invoked) = 2
    /\ run.invoked[1].stack = StackB
    /\ run.invoked[2].stack = StackA

\* A step function has failed.
StepFailed(r) == r.t = "command" /\ r.error # "none" /\ r.invoked # <<>>

\* C19: once a step function has failed for some stack, that step is not
\* called again and no later step function is called, for that stack or any
\* other; the results of the steps that completed before the failure stay as
\* they were, and no compensating step runs.
C19_FailureEndsTheRun ==
    [][StepFailed(run) =>
          /\ run'.invoked = run.invoked
          /\ run'.outputsByDeployer = run.outputsByDeployer]_vars

\* deploy on the stacks a and B: prepare completed on both, deploy failed on
\* a, and main has ended without a call for B's deploy step.
C19_Witness ==
    /\ StepFailed(run)
    /\ run.command = "deploy"
    /\ run.deployers = <<StackA, StackB>>
    /\ run.pc = "exited"
    /\ Len(run.invoked) = 3
    /\ run.invoked[3] = [step |-> 2, stack |-> StackA, args |-> <<Undef>>]
    /\ run.outputsByDeployer = <<<<Undef>>, <<Undef>>>>

\* Reference reading of the marker round trip: the value holds a marker
\* somewhere.
RECURSIVE HoldsMarker(_)
HoldsMarker(value) ==
    CASE value.t = "magic" -> TRUE
      [] value.t = "array" -> \E i \in 1..Len(value.items) : HoldsMarker(value.items[i])
      [] value.t = "entries" ->
            \E i \in 1..Len(value.items) : HoldsMarker(value.items[i].value)
      [] OTHER -> FALSE

ValidateConfigEnded == document.t = "validateConfig" /\ document.pc = "done"

\* C20: however validateConfig ends, no marker object remains anywhere in
\* the document, and every path holds the value it held before the call: each
\* function and regular expression is in place and identical to the original.
C20_DocumentRestored ==
    ValidateConfigEnded =>
        /\ ~HoldsMarker(document.config)
        /\ document.config = document.original

\* A function-valued global.role passes validation and is back in place.
FunctionRoleRoundTrip ==
    /\ ValidateConfigEnded
    /\ document.outcome = "returned"
    /\ document.original =
          Entries(<< [name |-> "global",
                      value |-> Entries(<< [name |-> "role", value |-> RoleFn] >>)] >>)
    /\ document.config = document.original

\* Reference reading of the report: every violation found, numbered from 1
\* in the order found.
EveryViolationNumbered(d) ==
    /\ Len(d.reported) = Len(d.errors)
    /\ d.errors # <<>>
    /\ \A n \in 1..Len(d.errors) :
          d.reported[n].number = n /\ d.reported[n].error = d.errors[n]

\* C21: validateConfig either returns normally or fails with a CallerError
\* that enumerates every schema violation found, numbered from 1 in order;
\* it never fails with any other kind of error.
C21_ReturnsOrCallerError ==
    ValidateConfigEnded =>
        \/ document.outcome = "returned" /\ document.errors = <<>>
        \/ document.outcome = "CallerError" /\ EveryViolationNumbered(document)

\* Reference reading of the documented configuration (index.d.ts): the field
\* names of a ConfigLayer and of a DeployType, and the kinds of their values.
ConfigLayerNames ==
    {"deployBucket", "deployBucketPrefix", "role", "cfnStackName", "inputTemplate",
     "outputTemplate", "authenticationCommand", "capabilities", "stackTags", "params"}

IsResolvable(value) == value.t \in {"string", "function"}

IsResolvableMap(value) ==
    /\ value.t = "entries"
    /\ \A i \in 1..Len(value.items) : IsResolvable(value.items[i].value)

RECURSIVE IsEnvNameValidator(_)
IsEnvNameValidator(value) ==
    \/ value.t \in {"string", "regexp", "function"}
    \/ /\ value.t = "array"
       /\ \A i \in 1..Len(value.items) : IsEnvNameValidator(value.items[i])

DocumentedField(name, value, ofDeployType) ==
    CASE name \in {"deployBucket", "deployBucketPrefix", "role", "cfnStackName",
                   "inputTemplate", "outputTemplate"} -> IsResolvable(value)
      [] name = "params" -> IsResolvableMap(value)
      [] name = "stackTags" -> value.t = "function" \/ IsResolvableMap(value)
      [] name = "validEnvs" -> ofDeployType /\ IsEnvNameValidator(value)
      [] OTHER -> FALSE

DocumentedLayer(layer, ofDeployType) ==
    /\ layer.t = "entries"
    /\ \A i \in 1..Len(layer.items) :
          DocumentedField(layer.items[i].name, layer.items[i].value, ofDeployType)

\* The layers of the document, each with whether it is a deploy type.
LayersOfDocument(doc) ==
    UNION {IF doc.items[i].name = "global"
           THEN {[layer |-> doc.items[i].value, ofDeployType |-> FALSE]}
           ELSE {[layer |-> doc.items[i].value.items[j].value,
                  ofDeployType |-> doc.items[i].name = "deployTypes"] :
                    j \in 1..Len(doc.items[i].value.items)} : i \in 1..Len(doc.items)}

DocumentedDocument(doc) ==
    \A l \in LayersOfDocument(doc) : DocumentedLayer(l.layer, l.ofDeployType)

\* A deploy type of the document has a validEnvs that is no EnvNameValidator.
BadValidEnvs(doc) ==
    \E l \in LayersOfDocument(doc) :
        /\ l.ofDeployType
        /\ \E i \in 1..Len(l.layer.items) :
              /\ l.layer.items[i].name = "validEnvs"
              /\ ~IsEnvNameValidator(l.layer.items[i].value)

\* C22: a document whose layers use only the documented field names with
\* values of the documented kinds passes validateConfig, and a document with
\* a deploy type whose validEnvs is not a string, regular expression,
\* function or list of these does not pass.
C22_DocumentedNamesAreTheSchema ==
    ValidateConfigEnded =>
        /\ DocumentedDocument(document.original) => document.outcome = "returned"
        /\ BadValidEnvs(document.original) => document.outcome # "returned"

\* C23: when capabilities is defined in more than one layer, the effective
\* layer holds exactly the list of the highest-precedence layer that defines
\* it: no item of a lower layer's list is kept.
C23_ListsAreReplacedWholesale ==
    pc = "done" =>
        LET S == {i \in 1..4 : Defines(i, "capabilities")}
        IN S # {} =>
              Get(finalArgs, "capabilities") =
                  Get(ConfiguredLayers[Highest(S)], "capabilities")

\* Reference reading of the log: the entry with the label.
EntriesLabelled(label) == {i \in 1..Len(logged) : logged[i][1] = label}

\* C24: the entry labelled as the deploy type carries the resolved deploy
\* type and where the deploy type came from, the entry labelled as the target
\* environment carries the resolved environment name and where that came
\* from, and in the environment-variable strategy the deploy type is
\* 'from DEPLOY-TYPE arg' exactly when a deploy type was given.
C24_ProvenanceIsPaired ==
    logged # <<>> =>
        /\ \A i \in EntriesLabelled("Deploy Type") :
              logged[i] = <<"Deploy Type", deployType, deployTypeFromWhere>>
        /\ \A i \in EntriesLabelled("Target Environment") :
              logged[i] = <<"Target Environment", env, envNameFromWhere>>
        /\ EntriesLabelled("Deploy Type") # {}
        /\ EntriesLabelled("Target Environment") # {}
        /\ AppliedStrategy = 3 =>
              (deployTypeFromWhere = "from DEPLOY-TYPE arg" <=> DeployTypeGiven)

\* C25: every failure of getDeployTypeAndEnv is a CallerError, which main
\* (not in debug mode) reports with exit status 1; the two failures of the
\* last strategy have distinct messages, one for a given deploy type and one
\* for none.
C25_ResolutionFailuresAreCallerErrors ==
    ResolutionFailed =>
        /\ InstanceOfCallerError(error.error)
        /\ exitCodeOf(FALSE, error.error) = 1
        /\ AppliedStrategy = 5 =>
              (error.message.text = "Could not autmatically determine environment name from DEPLOY-TYPE. Consider using the --env option"
                  <=> DeployTypeGiven)

\* Reference reading of the exit of a run whose step failed in the executor.
ExecutorFailed(r) == r.t = "command" /\ r.pc = "exited" /\ r.cause.from = "executor"

\* C26: an error the executor raises while a step runs is not classified as
\* a caller error: the run ends with the internal-error exit status, never
\* with the status of CallerErrors (1), in debug mode and in normal mode.
C26_ExecutorErrorsAreInternal ==
    ExecutorFailed(run) =>
        /\ ~InstanceOfCallerError(run.error)
        /\ run.exitCode # 1
        /\ ~run.debug => run.exitCode = -2

\* C26 as the code has it: an error the executor raises while a step runs
\* reaches main as a CallerError; in normal mode the run ends with exit
\* status 1, in debug mode with exit status -3.
C26_ExecutorErrorsAreCallerErrors ==
    ExecutorFailed(run) =>
        /\ InstanceOfCallerError(run.error)
        /\ run.exitCode = IF run.debug THEN -3 ELSE 1

\* A deploy of one stack whose first step fails in the executor with a
\* TypeError, in normal mode.
C26_Witness ==
    /\ ExecutorFailed(run)
    /\ run.cause.class = "TypeError"
    /\ ~run.debug
    /\ run.command = "deploy"
    /\ Len(run.invoked) = 1
    /\ run.exitCode = 1

\* C27: in the branch strategy every "/" of the branch name is replaced by
\* "-" before joining, so the environment name deployType-branch holds no
\* "/", for branch names with two or more slashes too.
C27_NoSlashInBranchEnvName ==
    envNameFromWhere = "from GIT branch name" =>
        /\ env = Str(deployType.s \o <<"-">> \o
                     ReplaceEvery(ToLowerCase(gitBranch.s), "/", "-"))
        /\ \A i \in 1..Len(env.s) : env.s[i] # "/"

\* C28: the effective layer never contains the deploy type's validEnvs
\* field.
C28_ValidEnvsIsLeftOut ==
    pc = "done" => Get(finalArgs, "validEnvs") = Undef

\* C28 as the code has it: the deploy type layer is merged whole, so when it
\* defines validEnvs and no layer above it does, the effective layer holds
\* the deploy type's validEnvs.
C28_ValidEnvsIsMergedIn ==
    (pc = "done" /\ {i \in 1..4 : Defines(i, "validEnvs")} = {2}) =>
        Get(finalArgs, "validEnvs") = Get(ConfiguredLayers[2], "validEnvs")

\* The deploy type "a" accepts every name starting with "a", and the
\* effective layer for ("a", "a-") holds that regular expression.
C28_Witness ==
    /\ pc = "done"
    /\ deployType = Str(A)
    /\ env = Str(<<"a", "-">>)
    /\ Get(ConfiguredLayers[2], "validEnvs") = Re("prefix", A)
    /\ Get(finalArgs, "validEnvs") = Re("prefix", A)

\* Reference reading of the chain: the step of the n-th call of a step
\* function, when every step is taken on every stack before the next step.
StepOf(r, n) == ((n - 1) \div Len(r.deployers)) + 1

WaitEntered(p) == p.t = "teardown" /\ p.checks > 0
WaitSettled(p) == p.pc \in {"settled", "stepFulfilled", "stepRejected", "exited"}

\* What the claim says of waitForStatus itself: the promise is resolved or
\* rejected once and no more; in a dry run it is resolved after one status
\* check with no further check scheduled; otherwise it is resolved only with a
\* stack for which the completion check holds.
WaitForStatusSettlesOnce(p) ==
    /\ p.resolves + p.rejects <= 1
    /\ WaitSettled(p) <=> p.resolves + p.rejects = 1
    /\ p.dryRun => p.checks = 1 /\ p.timers = 0 /\ p.rejects = 0 /\ p.resolves = 1
    /\ (~p.dryRun /\ p.resolves = 1) =>
          p.value.t = "stack" /\ deletionCompleted(p.value.status)
    /\ ~p.dryRun => p.timers = p.checks - (IF WaitSettled(p) THEN 1 ELSE 0)

\* C30: with the dry-run flag set, the teardown step (teardown, then
\* waitForDeleted) completes without an error: waitForStatus resolves after
\* one status check without scheduling another, and waitForDeleted finishes
\* normally; without dry-run waitForStatus polls until the completion check
\* holds or a command fails, and settles exactly once.
C30_DryRunTeardownCompletes ==
    WaitEntered(polling) =>
        /\ WaitForStatusSettlesOnce(polling)
        /\ polling.dryRun =>
              /\ polling.pc # "stepRejected"
              /\ polling.error = "none"
              /\ polling.exitCode = 0

====
